---------------------------- MODULE Spec2Model ----------------------------
(***************************************************************************)
(* A model of the Terraform compliance assistant's SuggestionProvider      *)
(* (suggestionProvider.ts), its commands (extension.ts) and the advisory   *)
(* service it calls (llmService.ts).                                       *)
(*                                                                         *)
(* Strings are sequences of one-character strings.  A text (a document's   *)
(* content, a code snippet) is the sequence of its lines, that is the      *)
(* string split on "\n": the empty string is the text << <<>> >>.  Line    *)
(* numbers are 0-based as in the source; sequences are 1-based, so line n  *)
(* of a text is lines[n + 1].                                              *)
(***************************************************************************)
EXTENDS Integers, Sequences, FiniteSets, TLC

(***************************************************************************)
(* A value bound once: const x = value; ... x ... x ...                    *)
(***************************************************************************)
With(value, Body(_)) == CHOOSE r \in {Body(x) : x \in {value}} : TRUE

(***************************************************************************)
(* String helpers: what String.prototype.trim, includes, startsWith,       *)
(* toLowerCase and split do on the strings of the model.                   *)
(***************************************************************************)
Min(a, b) == IF a <= b THEN a ELSE b

Max(a, b) == IF a >= b THEN a ELSE b

Abs(a) == IF a >= 0 THEN a ELSE 0 - a

RECURSIVE GCD(_, _)
GCD(a, b) == IF b = 0 THEN a ELSE With(a % b, LAMBDA r : GCD(b, r))

IsSpace(c) == c \in {" ", "\t", "\n"}

\* The first index >= from of s that holds no whitespace (Len(s) + 1 if none).
RECURSIVE SkipSpaces(_, _)
SkipSpaces(s, from) ==
    IF from <= Len(s) /\ IsSpace(s[from]) THEN SkipSpaces(s, from + 1) ELSE from

\* The last index <= from of s that holds no whitespace (0 if none).
RECURSIVE SkipSpacesBack(_, _)
SkipSpacesBack(s, from) ==
    IF from >= 1 /\ IsSpace(s[from]) THEN SkipSpacesBack(s, from - 1) ELSE from

TrimStart(s) == SubSeq(s, SkipSpaces(s, 1), Len(s))

TrimEnd(s) == SubSeq(s, 1, SkipSpacesBack(s, Len(s)))

Trim(s) == SubSeq(s, SkipSpaces(s, 1), SkipSpacesBack(s, Len(s)))

\* The leading whitespace of a line: line.text.match(/^(\s*)/)[1].
LeadingSpace(s) == SubSeq(s, 1, SkipSpaces(s, 1) - 1)

StripSpace(s) == SelectSeq(s, LAMBDA c : ~IsSpace(c))

Includes(hay, needle) ==
    \E k \in 0..(Len(hay) - Len(needle)) : SubSeq(hay, k + 1, k + Len(needle)) = needle

StartsWith(s, prefix) ==
    Len(prefix) <= Len(s) /\ SubSeq(s, 1, Len(prefix)) = prefix

UpperCase ==
    <<"A", "B", "C", "D", "E", "F", "G", "H", "I", "J", "K", "L", "M",
      "N", "O", "P", "Q", "R", "S", "T", "U", "V", "W", "X", "Y", "Z">>
LowerCase ==
    <<"a", "b", "c", "d", "e", "f", "g", "h", "i", "j", "k", "l", "m",
      "n", "o", "p", "q", "r", "s", "t", "u", "v", "w", "x", "y", "z">>
UpperCaseSet == {UpperCase[i] : i \in 1..26}

LowerChar(c) ==
    IF c \in UpperCaseSet
    THEN LowerCase[CHOOSE i \in 1..26 : UpperCase[i] = c]
    ELSE c

ToLower(s) == [i \in 1..Len(s) |-> LowerChar(s[i])]

\* lines.join('\n'): the text as one string.
RECURSIVE JoinFrom(_, _)
JoinFrom(lines, i) ==
    IF i > Len(lines) THEN <<>>
    ELSE IF i = Len(lines) THEN lines[i]
    ELSE lines[i] \o <<"\n">> \o JoinFrom(lines, i + 1)

Join(lines) == JoinFrom(lines, 1)

\* str.split(sep) for a one-character separator: the pieces of s[start..],
\* scanning from index i.
RECURSIVE SplitFrom(_, _, _, _)
SplitFrom(s, sep, start, i) ==
    IF i > Len(s) THEN <<SubSeq(s, start, Len(s))>>
    ELSE IF s[i] = sep
    THEN <<SubSeq(s, start, i - 1)>> \o SplitFrom(s, sep, i + 1, i + 1)
    ELSE SplitFrom(s, sep, start, i + 1)

SplitOn(s, sep) == SplitFrom(s, sep, 1, 1)

SeqToSet(s) == {s[i] : i \in 1..Len(s)}

\* code.split('\n').map(line => line.trim()).filter(line => line.length > 0)
NonBlankTrimmed(snippet) ==
    SelectSeq([i \in 1..Len(snippet) |-> Trim(snippet[i])], LAMBDA l : l # <<>>)

\* snippet.trim() is the empty string
IsBlank(snippet) == \A i \in 1..Len(snippet) : Trim(snippet[i]) = <<>>

NotFound == [found |-> FALSE, startLine |-> -1, endLine |-> -1]

(***************************************************************************)
(* Strategy 1: exact multi-line match.  matchCount is kept doubled (2 per  *)
(* full match, 1 per half match), so matchCount >= n * 0.8 is              *)
(* 5 * doubled >= 8 * n.                                                   *)
(***************************************************************************)
\* The inner loop from original line j (1-based) on, with the counts so far.
RECURSIVE ExactWindowFrom(_, _, _, _, _, _)
ExactWindowFrom(lines, originalLines, i, j, matchCount2, consecutiveMatches) ==
    IF j > Len(originalLines)
    THEN [matchCount2 |-> matchCount2, consecutiveMatches |-> consecutiveMatches]
    ELSE With(Trim(lines[i + j]), LAMBDA documentLine :
         With(originalLines[j], LAMBDA originalLine :
            IF documentLine = originalLine
            THEN ExactWindowFrom(lines, originalLines, i, j + 1,
                                 matchCount2 + 2, consecutiveMatches + 1)
            ELSE IF Includes(documentLine, originalLine)
                    \/ Includes(originalLine, documentLine)
            THEN ExactWindowFrom(lines, originalLines, i, j + 1,
                                 matchCount2 + 1, consecutiveMatches)
            ELSE ExactWindowFrom(lines, originalLines, i, j + 1, matchCount2, 0)))

ExactWindowScore(lines, originalLines, i) ==
    ExactWindowFrom(lines, originalLines, i, 1, 0, 0)

\* A variant that asks for two full matches whatever the window's length.
ExactWindowAcceptsTwo(lines, originalLines, i) ==
    \E w \in {ExactWindowScore(lines, originalLines, i)} :
        /\ 5 * w.matchCount2 >= 8 * Len(originalLines)
        /\ w.consecutiveMatches >= 2

ExactWindowAccepts(lines, originalLines, i) ==
    \E w \in {ExactWindowScore(lines, originalLines, i)} :
        /\ 5 * w.matchCount2 >= 8 * Len(originalLines)
        /\ w.consecutiveMatches >= Min(2, Len(originalLines))

\* The outer loop from window start i on: the first accepted window.
RECURSIVE ExactMatchFrom(_, _, _)
ExactMatchFrom(lines, originalLines, i) ==
    IF i > Len(lines) - Len(originalLines) THEN NotFound
    ELSE IF ExactWindowAccepts(lines, originalLines, i)
    THEN [found |-> TRUE, startLine |-> i, endLine |-> i + Len(originalLines) - 1]
    ELSE ExactMatchFrom(lines, originalLines, i + 1)

\* originalCode is the trimmed snippet as one string.
findExactMultiLineMatch(lines, originalCode) ==
    With(NonBlankTrimmed(SplitOn(originalCode, "\n")), LAMBDA originalLines :
        ExactMatchFrom(lines, originalLines, 0))

(***************************************************************************)
(* Strategy 2: Terraform resource block match.                             *)
(***************************************************************************)
KwResource == <<"r", "e", "s", "o", "u", "r", "c", "e">>

Quote == "\""

\* The first index >= from of s that holds c (0 if none).
RECURSIVE IndexOfFrom(_, _, _)
IndexOfFrom(s, c, from) ==
    IF from > Len(s) THEN 0
    ELSE IF s[from] = c THEN from ELSE IndexOfFrom(s, c, from + 1)

NoGroup == [ok |-> FALSE, group |-> <<>>, next |-> 0]

\* \s+"([^"]+)" matched at index p of s: the group and the index after the
\* closing quote, or ok = FALSE.
QuotedAfterSpaces(s, p) ==
    With(SkipSpaces(s, p), LAMBDA q :
        IF ~(q > p /\ q <= Len(s) /\ s[q] = Quote) THEN NoGroup
        ELSE With(IndexOfFrom(s, Quote, q + 1), LAMBDA close :
            IF close > q + 1
            THEN [ok |-> TRUE, group |-> SubSeq(s, q + 1, close - 1), next |-> close + 1]
            ELSE NoGroup))

NoResource == [ok |-> FALSE, type |-> <<>>, name |-> <<>>]

\* /resource\s+"([^"]+)"\s+"([^"]+)"/ matched at index p of s.
ResourcePatternAt(s, p) ==
    IF ~(p + Len(KwResource) - 1 <= Len(s)
         /\ SubSeq(s, p, p + Len(KwResource) - 1) = KwResource)
    THEN NoResource
    ELSE With(QuotedAfterSpaces(s, p + Len(KwResource)), LAMBDA t :
        IF ~t.ok THEN NoResource
        ELSE With(QuotedAfterSpaces(s, t.next), LAMBDA n :
            IF ~n.ok THEN NoResource
            ELSE [ok |-> TRUE, type |-> t.group, name |-> n.group]))

\* code.match(/resource\s+"([^"]+)"\s+"([^"]+)"/): the match at the least
\* index of code at which the pattern matches, or ok = FALSE for null.
extractTerraformResourceInfo(code) ==
    With({p \in 1..Len(code) : ResourcePatternAt(code, p).ok}, LAMBDA starts :
        IF starts = {} THEN NoResource
        ELSE ResourcePatternAt(code, CHOOSE p \in starts : \A q \in starts : p <= q))

\* new RegExp(`resource\\s+"${type}"\\s+"${name}"`).test(line); type and name
\* hold no regular-expression metacharacter in the model, so they match
\* themselves.
isResourceDeclaration(line, resourceInfo) ==
    \E p \in 1..Len(line) :
        \E m \in {ResourcePatternAt(line, p)} :
            m.ok /\ m.type = resourceInfo.type /\ m.name = resourceInfo.name

\* The brace count and the found-open-brace flag after the characters of one
\* line, or the fact that the block closed in it.
RECURSIVE ScanBraces(_, _, _, _)
ScanBraces(line, k, braceCount, foundOpenBrace) ==
    IF k > Len(line)
    THEN [closed |-> FALSE, braceCount |-> braceCount, foundOpenBrace |-> foundOpenBrace]
    ELSE IF line[k] = "{" THEN ScanBraces(line, k + 1, braceCount + 1, TRUE)
    ELSE IF line[k] = "}"
    THEN IF foundOpenBrace /\ braceCount - 1 = 0
         THEN [closed |-> TRUE, braceCount |-> 0, foundOpenBrace |-> TRUE]
         ELSE ScanBraces(line, k + 1, braceCount - 1, foundOpenBrace)
    ELSE ScanBraces(line, k + 1, braceCount, foundOpenBrace)

RECURSIVE BlockEndFrom(_, _, _, _)
BlockEndFrom(lines, i, braceCount, foundOpenBrace) ==
    IF i >= Len(lines) THEN -1
    ELSE With(ScanBraces(lines[i + 1], 1, braceCount, foundOpenBrace), LAMBDA r :
        IF r.closed THEN i
        ELSE BlockEndFrom(lines, i + 1, r.braceCount, r.foundOpenBrace))

findResourceBlockEnd(lines, startLine) == BlockEndFrom(lines, startLine, 0, FALSE)

\* str.toLowerCase().replace(/\s+/g, ' ').trim().split(' ')
NormalizedWords(content) ==
    With(SelectSeq(SplitOn([i \in 1..Len(content) |->
                               IF IsSpace(content[i]) THEN " " ELSE LowerChar(content[i])],
                           " "),
                   LAMBDA w : w # <<>>),
         LAMBDA words : IF words = <<>> THEN << <<>> >> ELSE words)

\* intersection.length and union.length of calculateContentSimilarity, whose
\* result is their quotient.
calculateContentSimilarity(content1, content2) ==
    With(NormalizedWords(content1), LAMBDA words1 :
    With(SeqToSet(NormalizedWords(content2)), LAMBDA words2 :
        [num |-> Len(SelectSeq(words1, LAMBDA w : w \in words2)),
         den |-> Cardinality(SeqToSet(words1) \cup words2)]))

\* The body of the loop for line i, and the lines after it.
RECURSIVE ResourceMatchFrom(_, _, _, _)
ResourceMatchFrom(lines, originalCode, resourceInfo, i) ==
    IF i >= Len(lines) THEN NotFound
    ELSE IF ~isResourceDeclaration(Trim(lines[i + 1]), resourceInfo)
    THEN ResourceMatchFrom(lines, originalCode, resourceInfo, i + 1)
    ELSE With(findResourceBlockEnd(lines, i), LAMBDA blockEnd :
        IF blockEnd = -1
        THEN ResourceMatchFrom(lines, originalCode, resourceInfo, i + 1)
        ELSE With(calculateContentSimilarity(
                      Trim(Join(SubSeq(lines, i + 1, blockEnd + 1))), originalCode),
                  LAMBDA similarity :
            IF 10 * similarity.num > 3 * similarity.den
            THEN [found |-> TRUE, startLine |-> i, endLine |-> blockEnd]
            ELSE ResourceMatchFrom(lines, originalCode, resourceInfo, i + 1)))

\* originalCode is the trimmed snippet as one string.
findTerraformResourceMatch(lines, originalCode) ==
    With(extractTerraformResourceInfo(originalCode), LAMBDA resourceInfo :
        IF ~resourceInfo.ok THEN NotFound
        ELSE ResourceMatchFrom(lines, originalCode, resourceInfo, 0))

(***************************************************************************)
(* Strategy 3: fuzzy sliding window.  Scores are exact rationals           *)
(* [num, den] with den > 0 (the source computes them in floating point).   *)
(***************************************************************************)
Rat(n, d) == With(GCD(Abs(n), d), LAMBDA g : [num |-> n \div g, den |-> d \div g])

RatAdd(a, b) ==
    With(a.num * b.den + b.num * a.den, LAMBDA n :
    With(a.den * b.den, LAMBDA d : Rat(n, d)))

RatGreater(a, b) == a.num * b.den > b.num * a.den

terraformKeywords ==
    << <<"r", "e", "s", "o", "u", "r", "c", "e">>,
       <<"d", "a", "t", "a">>,
       <<"v", "a", "r", "i", "a", "b", "l", "e">>,
       <<"o", "u", "t", "p", "u", "t">>,
       <<"l", "o", "c", "a", "l", "s">>,
       <<"m", "o", "d", "u", "l", "e">>,
       <<"p", "r", "o", "v", "i", "d", "e", "r">>,
       <<"t", "e", "r", "r", "a", "f", "o", "r", "m">>,
       <<"a", "w", "s", "_">>,
       <<"a", "z", "u", "r", "e", "r", "m", "_">>,
       <<"g", "o", "o", "g", "l", "e", "_">> >>

extractTerraformKeywords(code) ==
    With(ToLower(code), LAMBDA normalizedCode :
    With(extractTerraformResourceInfo(code), LAMBDA resourceMatch :
        SelectSeq(terraformKeywords, LAMBDA k : Includes(normalizedCode, k))
        \o (IF resourceMatch.ok THEN <<resourceMatch.type, resourceMatch.name>>
            ELSE <<>>)))

\* The number of indexes below both lengths at which the strings agree.
PositionalMatches(norm1, norm2) ==
    Cardinality({i \in 1..Min(Len(norm1), Len(norm2)) : norm1[i] = norm2[i]})

calculateLineSimilarity(line1, line2) ==
    With(StripSpace(ToLower(line1)), LAMBDA norm1 :
    With(StripSpace(ToLower(line2)), LAMBDA norm2 :
        IF norm1 = norm2 THEN [num |-> 1, den |-> 1]
        ELSE IF Includes(norm1, norm2) \/ Includes(norm2, norm1)
        THEN [num |-> 4, den |-> 5]
        ELSE IF Max(Len(norm1), Len(norm2)) = 0 THEN [num |-> 1, den |-> 1]
        ELSE With(PositionalMatches(norm1, norm2), LAMBDA matches :
                 Rat(matches, Max(Len(norm1), Len(norm2))))))

\* sum plus calculateLineSimilarity(originalLine, blockLine.trim()) over the
\* pairs of an original line and a block line from pair (a, b) on.
RECURSIVE SimilaritySum(_, _, _, _, _)
SimilaritySum(originalLines, blockLines, a, b, sum) ==
    IF a > Len(originalLines) THEN sum
    ELSE IF b > Len(blockLines) THEN SimilaritySum(originalLines, blockLines, a + 1, 1, sum)
    ELSE With(calculateLineSimilarity(originalLines[a], Trim(blockLines[b])),
              LAMBDA similarity :
         With(RatAdd(sum, similarity), LAMBDA next :
            SimilaritySum(originalLines, blockLines, a, b + 1, next)))

\* The score of the block lines[i..j].
FuzzyScore(lines, originalLines, keywords, i, j) ==
    With(SubSeq(lines, i + 1, j + 1), LAMBDA blockLines :
    With(extractTerraformKeywords(Trim(Join(blockLines))), LAMBDA blockKeywords :
    With(Len(SelectSeq(keywords, LAMBDA k : k \in SeqToSet(blockKeywords))),
         LAMBDA commonKeywords :
    With(SimilaritySum(originalLines, blockLines, 1, 1, [num |-> 0, den |-> 1]),
         LAMBDA sim :
    With(Abs(Len(originalLines) - Len(blockLines)), LAMBDA lengthDiff :
    With((commonKeywords * 10 - lengthDiff * 2) * sim.den + 5 * sim.num, LAMBDA n :
        Rat(n, sim.den)))))))

FuzzyThreshold == [num |-> 15, den |-> 1]

\* The blocks lines[i..j] the two loops visit: i from 0, j from i up to
\* Math.min(i + originalLines.length + 5, lines.length) - 1.
FuzzyBlocks(lines, originalLines) ==
    {b \in (0..(Len(lines) - 1)) \X (0..(Len(lines) - 1)) :
        b[1] <= b[2] /\ b[2] < Min(b[1] + Len(originalLines) + 5, Len(lines))}

\* Block a is visited before block b.
VisitedBefore(a, b) == a[1] < b[1] \/ (a[1] = b[1] /\ a[2] < b[2])

\* bestMatch after the two loops.  It starts at score 0 and is replaced by a
\* block whose score is above both the best so far and the threshold: it
\* ends as the first visited of the blocks of the highest score above the
\* threshold, or as it started when no block scores above the threshold.
FuzzyBestMatch(lines, originalLines, keywords) ==
    With({[score |-> FuzzyScore(lines, originalLines, keywords, b[1], b[2]),
           startLine |-> b[1], endLine |-> b[2]] :
             b \in FuzzyBlocks(lines, originalLines)},
         LAMBDA scored :
    With({s \in scored : RatGreater(s.score, FuzzyThreshold)}, LAMBDA above :
        IF above = {}
        THEN [score |-> [num |-> 0, den |-> 1], startLine |-> -1, endLine |-> -1]
        ELSE CHOOSE s \in above : \A o \in above :
                 /\ ~RatGreater(o.score, s.score)
                 /\ o.score = s.score =>
                        ~VisitedBefore(<<o.startLine, o.endLine>>,
                                       <<s.startLine, s.endLine>>)))

\* originalCode is the trimmed snippet as one string.
findFuzzyMatch(lines, originalCode) ==
    With(NonBlankTrimmed(SplitOn(originalCode, "\n")), LAMBDA originalLines :
    With(extractTerraformKeywords(originalCode), LAMBDA keywords :
    With(FuzzyBestMatch(lines, originalLines, keywords), LAMBDA bestMatch :
        [found |-> RatGreater(bestMatch.score, FuzzyThreshold),
         startLine |-> bestMatch.startLine, endLine |-> bestMatch.endLine])))

(***************************************************************************)
(* Insertions and the cascade.                                             *)
(***************************************************************************)
KwResourceSp == KwResource \o <<" ">>

\* The loop from line i downwards: the insertion line after the last line
\* that starts a resource, or -1 when no line does.
RECURSIVE AfterLastResource(_, _)
AfterLastResource(lines, i) ==
    IF i < 0 THEN -1
    ELSE IF StartsWith(Trim(lines[i + 1]), KwResourceSp)
    THEN With(findResourceBlockEnd(lines, i), LAMBDA blockEnd :
             IF blockEnd # -1 THEN blockEnd + 1 ELSE i + 1)
    ELSE AfterLastResource(lines, i - 1)

\* A variant that takes the line hint as it comes, without clamping it.
findInsertionPointUnclamped(lines, suggestion) ==
    With(IF Includes(Trim(Join(suggestion.suggested_code_snippet)), KwResourceSp)
         THEN AfterLastResource(lines, Len(lines) - 1) ELSE -1,
         LAMBDA afterResource :
        IF afterResource # -1 THEN afterResource
        ELSE suggestion.line_number - 1)

findInsertionPoint(lines, suggestion) ==
    With(IF Includes(Trim(Join(suggestion.suggested_code_snippet)), KwResourceSp)
         THEN AfterLastResource(lines, Len(lines) - 1) ELSE -1,
         LAMBDA afterResource :
        IF afterResource # -1 THEN afterResource
        ELSE Max(0, Min(suggestion.line_number - 1, Len(lines))))

\* new vscode.Range(startLine, startCharacter, endLine, endCharacter)
Range(startLine, startCharacter, endLine, endCharacter) ==
    [startLine |-> startLine, startCharacter |-> startCharacter,
     endLine |-> endLine, endCharacter |-> endCharacter]

\* lines[n]?.length || 0
LineLength(lines, n) == IF n >= 0 /\ n < Len(lines) THEN Len(lines[n + 1]) ELSE 0

MatchLocation(lines, m) ==
    [startLine |-> m.startLine, endLine |-> m.endLine,
     range |-> Range(m.startLine, 0, m.endLine, LineLength(lines, m.endLine)),
     found |-> TRUE]

findCodeLocation(lines, suggestion) ==
    With(Trim(Join(suggestion.original_code_snippet)), LAMBDA originalCode :
    IF originalCode = <<>>
    THEN With(findInsertionPoint(lines, suggestion), LAMBDA insertionPoint :
             [startLine |-> insertionPoint, endLine |-> insertionPoint,
              range |-> Range(insertionPoint, 0, insertionPoint, 0),
              found |-> TRUE])
    ELSE With(findExactMultiLineMatch(lines, originalCode), LAMBDA exactMatch :
    IF exactMatch.found THEN MatchLocation(lines, exactMatch)
    ELSE With(findTerraformResourceMatch(lines, originalCode), LAMBDA resourceMatch :
    IF resourceMatch.found THEN MatchLocation(lines, resourceMatch)
    ELSE With(findFuzzyMatch(lines, originalCode), LAMBDA fuzzyMatch :
    IF fuzzyMatch.found THEN MatchLocation(lines, fuzzyMatch)
    ELSE With(Max(0, Min(suggestion.line_number - 1, Len(lines) - 1)),
              LAMBDA llmLineNumber :
             [startLine |-> llmLineNumber, endLine |-> llmLineNumber,
              range |-> Range(llmLineNumber, 0, llmLineNumber,
                              LineLength(lines, llmLineNumber)),
              found |-> FALSE])))))

(***************************************************************************)
(* The pipeline: locate, prioritize, prune, cap.                           *)
(***************************************************************************)
\* Array.prototype.sort with a consistent comparator: a stable sort.
\* cmp(a, b) < 0 puts a before b; entries that compare equal keep their order.
StableSort(s, cmp(_, _)) ==
    With([i \in 1..Len(s) |->
             Cardinality({j \in 1..Len(s) :
                 \E c \in {cmp(s[j], s[i])} : c < 0 \/ (c = 0 /\ j < i)})],
         LAMBDA rank :
        [k \in 1..Len(s) |-> s[CHOOSE i \in 1..Len(s) : rank[i] = k - 1]])

\* A variant that keeps the entries at the end of the list.
SliceFromEnd(s, end) ==
    SubSeq(s, IF end < 0 THEN 1 ELSE Len(s) - Min(end, Len(s)) + 1,
           IF end < 0 THEN Max(Len(s) + end, 0) ELSE Len(s))

\* Array.prototype.slice(0, end) for an integer end.
Slice0(s, end) ==
    SubSeq(s, 1, IF end < 0 THEN Max(Len(s) + end, 0) ELSE Min(end, Len(s)))

securityKeywords ==
    << <<"s", "e", "c", "u", "r", "i", "t", "y">>,
       <<"e", "n", "c", "r", "y", "p", "t", "i", "o", "n">>,
       <<"v", "u", "l", "n", "e", "r", "a", "b", "l", "e">>,
       <<"e", "x", "p", "o", "s", "u", "r", "e">>,
       <<"a", "c", "c", "e", "s", "s">>,
       <<"p", "e", "r", "m", "i", "s", "s", "i", "o", "n">>,
       <<"p", "u", "b", "l", "i", "c">>,
       <<"p", "r", "i", "v", "a", "t", "e">>,
       <<"s", "s", "l">>,
       <<"t", "l", "s">>,
       <<"h", "t", "t", "p", "s">>,
       <<"a", "u", "t", "h", "e", "n", "t", "i", "c", "a", "t", "i", "o", "n">>,
       <<"a", "u", "t", "h", "o", "r", "i", "z", "a", "t", "i", "o", "n">> >>

performanceKeywords ==
    << <<"p", "e", "r", "f", "o", "r", "m", "a", "n", "c", "e">>,
       <<"o", "p", "t", "i", "m", "i", "z", "a", "t", "i", "o", "n">>,
       <<"c", "o", "s", "t">>,
       <<"e", "f", "f", "i", "c", "i", "e", "n", "t">>,
       <<"r", "e", "s", "o", "u", "r", "c", "e">>,
       <<"s", "c", "a", "l", "i", "n", "g">>,
       <<"c", "a", "p", "a", "c", "i", "t", "y">>,
       <<"t", "h", "r", "o", "u", "g", "h", "p", "u", "t">>,
       <<"l", "a", "t", "e", "n", "c", "y">>,
       <<"b", "a", "n", "d", "w", "i", "d", "t", "h">> >>

\* keyword.toLowerCase() of each keyword
securityKeywordsLower ==
    [i \in 1..Len(securityKeywords) |-> ToLower(securityKeywords[i])]

isSecurityRelated(reasoning) ==
    \E lowerReasoning \in {ToLower(reasoning)} :
        \E i \in 1..Len(securityKeywordsLower) :
            Includes(lowerReasoning, securityKeywordsLower[i])

performanceKeywordsLower ==
    [i \in 1..Len(performanceKeywords) |-> ToLower(performanceKeywords[i])]

isPerformanceRelated(reasoning) ==
    \E lowerReasoning \in {ToLower(reasoning)} :
        \E i \in 1..Len(performanceKeywordsLower) :
            Includes(lowerReasoning, performanceKeywordsLower[i])

\* The Suggestion fields of a stored entry.
BasicSuggestion(s) ==
    [original_code_snippet |-> s.original_code_snippet,
     suggested_code_snippet |-> s.suggested_code_snippet,
     line_number |-> s.line_number,
     reasoning |-> s.reasoning]

\* A variant that leaves every line_number as the batch gave it.
processAndValidateUncorrected(lines, batch) ==
    [i \in 1..Len(batch) |->
        With(findCodeLocation(lines, batch[i]), LAMBDA location :
            [original_code_snippet |-> batch[i].original_code_snippet,
             suggested_code_snippet |-> batch[i].suggested_code_snippet,
             line_number |-> batch[i].line_number,
             reasoning |-> batch[i].reasoning,
             location |-> location])]

\* A variant that retains only the suggestions it could locate.
processAndValidateLocated(lines, batch) ==
    SelectSeq([i \in 1..Len(batch) |->
                  With(findCodeLocation(lines, batch[i]), LAMBDA location :
                      [original_code_snippet |-> batch[i].original_code_snippet,
                       suggested_code_snippet |-> batch[i].suggested_code_snippet,
                       line_number |-> IF location.found THEN location.startLine + 1
                                       ELSE batch[i].line_number,
                       reasoning |-> batch[i].reasoning,
                       location |-> location])],
              LAMBDA entry : entry.location.found)

\* Every suggestion of the batch with its location in lines; one that is not
\* found is retained with its fallback span.
processAndValidateSuggestions(lines, batch) ==
    [i \in 1..Len(batch) |->
        With(findCodeLocation(lines, batch[i]), LAMBDA location :
            [original_code_snippet |-> batch[i].original_code_snippet,
             suggested_code_snippet |-> batch[i].suggested_code_snippet,
             line_number |-> IF location.found THEN location.startLine + 1
                             ELSE batch[i].line_number,
             reasoning |-> batch[i].reasoning,
             location |-> location])]

\* A variant of the comparator that stops after the two categories.
CategoryCompare(a, b) ==
    IF a.location.found # b.location.found
    THEN (IF b.location.found THEN 1 ELSE 0) - (IF a.location.found THEN 1 ELSE 0)
    ELSE IF isSecurityRelated(a.reasoning) # isSecurityRelated(b.reasoning)
    THEN (IF isSecurityRelated(b.reasoning) THEN 1 ELSE -1)
    ELSE IF isPerformanceRelated(a.reasoning) # isPerformanceRelated(b.reasoning)
    THEN (IF isPerformanceRelated(b.reasoning) THEN 1 ELSE -1)
    ELSE 0

PriorityCompare(a, b) ==
    With(isSecurityRelated(a.reasoning), LAMBDA aIsSecurityRelated :
    With(isSecurityRelated(b.reasoning), LAMBDA bIsSecurityRelated :
    With(isPerformanceRelated(a.reasoning), LAMBDA aIsPerformanceRelated :
    With(isPerformanceRelated(b.reasoning), LAMBDA bIsPerformanceRelated :
        IF a.location.found # b.location.found
        THEN (IF b.location.found THEN 1 ELSE 0) - (IF a.location.found THEN 1 ELSE 0)
        ELSE IF aIsSecurityRelated # bIsSecurityRelated
        THEN (IF bIsSecurityRelated THEN 1 ELSE -1)
        ELSE IF aIsPerformanceRelated # bIsPerformanceRelated
        THEN (IF bIsPerformanceRelated THEN 1 ELSE -1)
        ELSE a.line_number - b.line_number))))

\* A variant that leaves the located suggestions in the order of the batch.
InBatchOrder(located) == located

prioritizeSuggestions(located) == StableSort(located, PriorityCompare)

StartLineCompare(a, b) == a.location.startLine - b.location.startLine

minSpacing == 2

\* The walk over the line-sorted list: the kept entries of sorted[k..].
RECURSIVE KeepSpaced(_, _, _)
KeepSpaced(sorted, k, lastEndLine) ==
    IF k > Len(sorted) THEN <<>>
    ELSE IF sorted[k].location.startLine >= lastEndLine + minSpacing
    THEN <<sorted[k]>> \o KeepSpaced(sorted, k + 1, sorted[k].location.endLine)
    ELSE KeepSpaced(sorted, k + 1, lastEndLine)

\* A variant that sorts by line and prunes nothing.
SortedByLineOnly(prioritized) == StableSort(prioritized, StartLineCompare)

removeOverlappingSuggestions(prioritized) ==
    IF Len(prioritized) <= 1 THEN prioritized
    ELSE With(StableSort(prioritized, StartLineCompare), LAMBDA sortedSuggestions :
             KeepSpaced(sortedSuggestions, 1, -1))

\* The list processSuggestions stores for a document (limitedSuggestions).
LimitedSuggestions(lines, batch, maxPerFile) ==
    With(processAndValidateSuggestions(lines, batch), LAMBDA validSuggestions :
    With(prioritizeSuggestions(validSuggestions), LAMBDA prioritizedSuggestions :
    With(removeOverlappingSuggestions(prioritizedSuggestions),
         LAMBDA nonOverlappingSuggestions :
        Slice0(nonOverlappingSuggestions, maxPerFile))))

\* The diagnostics processSuggestions publishes for the stored list.
DiagnosticsOf(limited) ==
    [i \in 1..Len(limited) |->
        [range |-> limited[i].location.range,
         reasoning |-> limited[i].reasoning,
         source |-> "Terraform Compliance Assistant",
         code |-> <<"suggestion-", i - 1>>]]

\* ComplianceCodeActionProvider.provideCodeActions for a document whose active
\* set is stored, asked with contextDiagnostics: an accept and a decline quick
\* fix for each diagnostic it takes for its own.  The tests are made from left
\* to right, as && makes them; an index outside stored gives undefined.
provideCodeActions(stored, contextDiagnostics) ==
    LET own == SelectSeq(contextDiagnostics, LAMBDA diagnostic :
                   /\ diagnostic.source = "Terraform Compliance"
                   /\ diagnostic.code \in Int
                   /\ diagnostic.code \in 0..(Len(stored) - 1))
    IN  [k \in 1..(2 * Len(own)) |->
            IF k % 2 = 1
            THEN [title |-> "Accept compliance suggestion",
                  command |-> "terraformCompliance.acceptSuggestion",
                  arguments |-> <<stored[own[(k + 1) \div 2].code + 1]>>]
            ELSE [title |-> "Decline suggestion",
                  command |-> "terraformCompliance.declineSuggestion",
                  arguments |-> <<stored[own[k \div 2].code + 1]>>]]

(***************************************************************************)
(* Text edits as the editor applies them (TextEditor.edit): positions are  *)
(* validated against the document, then the range is replaced.             *)
(***************************************************************************)
\* The length of the first l lines of the text, each with its line break.
RECURSIVE LengthBefore(_, _)
LengthBefore(lines, l) ==
    IF l = 0 THEN 0 ELSE Len(lines[l]) + 1 + LengthBefore(lines, l - 1)

\* The offset in Join(lines) of a position, clamped into the document.
OffsetAt(lines, line, character) ==
    With(Max(0, Min(line, Len(lines) - 1)), LAMBDA l :
        LengthBefore(lines, l)
            + (IF line < 0 THEN 0
               ELSE IF line > Len(lines) - 1 THEN Len(lines[l + 1])
               ELSE Max(0, Min(character, Len(lines[l + 1])))))

\* editBuilder.replace(range, newText); an insert is a replace of an empty range.
ApplyEdit(lines, edit) ==
    With(Join(lines), LAMBDA flat :
    With(OffsetAt(lines, edit.range.startLine, edit.range.startCharacter), LAMBDA from :
    With(OffsetAt(lines, edit.range.endLine, edit.range.endCharacter), LAMBDA to :
        SplitOn(SubSeq(flat, 1, from) \o edit.newText \o SubSeq(flat, to + 1, Len(flat)),
                "\n"))))

getProperIndentation(lines, lineNumber) ==
    IF lineNumber >= Len(lines) THEN <<>> ELSE LeadingSpace(lines[lineNumber + 1])

\* The edit applySuggestion's callback builds for a located suggestion.
SuggestionEdit(lines, entry) ==
    With(getProperIndentation(lines, entry.location.startLine)
             \o Join(entry.suggested_code_snippet),
         LAMBDA indentedSuggestion :
        IF IsBlank(entry.original_code_snippet)
        THEN [range |-> Range(entry.location.startLine, 0, entry.location.startLine, 0),
              newText |-> indentedSuggestion \o <<"\n">>]
        ELSE [range |-> entry.location.range, newText |-> indentedSuggestion])

(***************************************************************************)
(* The advisory call: LLMService.analyzeTerraformCode, as a function of    *)
(* what the network hands back.                                            *)
(***************************************************************************)
\* fetch rejects; or a status; or a body that is not JSON; or a JSON body
\* without a suggestion field, with an unparsable one, or with a parsed value.
Rejected == [kind |-> "rejected", status |-> 0, isArray |-> FALSE, items |-> <<>>]
HttpStatus(status) == [kind |-> "status", status |-> status, isArray |-> FALSE, items |-> <<>>]
BodyNotJson == [kind |-> "bodyNotJson", status |-> 200, isArray |-> FALSE, items |-> <<>>]
NoSuggestionField == [kind |-> "noSuggestion", status |-> 200, isArray |-> FALSE, items |-> <<>>]
SuggestionNotJson == [kind |-> "suggestionNotJson", status |-> 200, isArray |-> FALSE, items |-> <<>>]
ParsedNull == [kind |-> "parsed", status |-> 200, isArray |-> FALSE, items |-> <<>>]
ParsedArray(items) == [kind |-> "parsed", status |-> 200, isArray |-> TRUE, items |-> items]

Returned(isArray, items, log) ==
    [threw |-> FALSE, error |-> "", isArray |-> isArray, items |-> items, log |-> log]
Thrown(error, log) ==
    [threw |-> TRUE, error |-> error, isArray |-> FALSE, items |-> <<>>, log |-> log]

\* A variant that answers an unparsable body with an empty list.
analyzeTerraformCodeLenient(response) ==
    IF response.kind \in {"rejected"}
    THEN Thrown("fetch failed", <<"Error in LLMService:">>)
    ELSE IF response.kind = "parsed"
    THEN Returned(response.isArray, response.items, <<>>)
    ELSE Returned(TRUE, <<>>, <<>>)

analyzeTerraformCode(response) ==
    CASE response.kind = "rejected" ->
             Thrown("fetch failed", <<"Error in LLMService:">>)
      [] response.kind = "status" /\ ~(response.status \in 200..299) ->
             Returned(TRUE, <<>>, <<"HTTP error:">>)
      [] response.kind = "bodyNotJson" ->
             Thrown("Unexpected token", <<"Error in LLMService:">>)
      [] response.kind = "noSuggestion" ->
             Returned(TRUE, <<>>, <<>>)
      [] response.kind = "suggestionNotJson" ->
             Thrown("Unexpected token", <<"LLM API call failed:", "Error in LLMService:">>)
      [] OTHER ->
             Returned(response.isArray, response.items, <<>>)

(***************************************************************************)
(* The advisory call of the service that retries: analyzeWithRetry, one    *)
(* attempt at a time.                                                      *)
(***************************************************************************)
maxRetries == 3

\* fetch rejects with an error that isTimeoutError recognises.
TimedOut == [kind |-> "timeout", status |-> 0, isArray |-> FALSE, items |-> <<>>]

isTimeoutError(response) == response.kind = "timeout"

\* A variant that takes every server error for a gateway timeout.
IsServerError(response) == response.kind = "status" /\ response.status >= 500

\* response.status === 504
IsGatewayTimeout(response) == response.kind = "status" /\ response.status = 504

\* A variant that allows one more retry.
RetriesLeftInclusive(attempt) == attempt <= maxRetries

\* attempt < this.maxRetries
RetriesLeft(attempt) == attempt < maxRetries

\* Whether the attempt that got response waits and calls analyzeWithRetry again.
RetriesAfter(response, attempt) ==
    (IsGatewayTimeout(response) \/ isTimeoutError(response)) /\ RetriesLeft(attempt)

\* console.log(response.status, response.statusText)
StatusLine(response) ==
    CASE response.status = 504 -> "504 Gateway Timeout"
      [] response.status = 500 -> "500 Internal Server Error"
      [] response.status = 404 -> "404 Not Found"
      [] OTHER -> "200 OK"

RetryLog(response) ==
    IF isTimeoutError(response) THEN <<"Network timeout error. Retrying">>
    ELSE <<StatusLine(response), "Received 504 timeout error. Retrying">>

\* What analyzeWithRetry returns or throws on a response it does not retry.
analyzeWithRetry(response) ==
    CASE response.kind = "rejected" ->
             Thrown("fetch failed", <<"Error in LLMService:">>)
      [] response.kind = "timeout" ->
             Thrown("timeout", <<"Error in LLMService:">>)
      [] response.kind = "status" /\ ~(response.status \in 200..299) ->
             Returned(TRUE, <<>>, <<StatusLine(response), "HTTP error:">>)
      [] response.kind = "bodyNotJson" ->
             Thrown("Unexpected token", <<StatusLine(response), "Error in LLMService:">>)
      [] response.kind = "noSuggestion" ->
             Returned(TRUE, <<>>, <<StatusLine(response)>>)
      [] response.kind = "suggestionNotJson" ->
             Thrown("Unexpected token",
                    <<StatusLine(response), "LLM API call failed:", "Error in LLMService:">>)
      [] OTHER ->
             Returned(response.isArray, response.items, <<StatusLine(response)>>)

(***************************************************************************)
(* The documents, suggestions and settings the model draws its inputs from *)
(***************************************************************************)
Docs == {"a.tf", "b.tf"}

TextOne == << <<"x">>, <<" ", "a">>, <<"b">>, <<"c">> >>
TextTwo == << <<"x">>, <<"b">>, <<"c">> >>
UserTexts == {TextOne, TextTwo}

\* A replacement of line " a" (security), of line "b" (performance), of line
\* "c" (neither, with a wrong line hint), and an insertion.
SuggestA ==
    [original_code_snippet |-> << <<"a">> >>,
     suggested_code_snippet |-> << <<"p">>, <<"q">> >>,
     line_number |-> 2, reasoning |-> <<"s", "s", "l">>]
SuggestB ==
    [original_code_snippet |-> << <<"b">> >>,
     suggested_code_snippet |-> << <<"B">> >>,
     line_number |-> 3, reasoning |-> <<"c", "o", "s", "t">>]
SuggestC ==
    [original_code_snippet |-> << <<"c">> >>,
     suggested_code_snippet |-> << <<"C">> >>,
     line_number |-> 9, reasoning |-> <<"n">>]
SuggestI ==
    [original_code_snippet |-> << <<>> >>,
     suggested_code_snippet |-> << <<"n">> >>,
     line_number |-> 1, reasoning |-> <<"i">>]
RawSuggestions == {SuggestA, SuggestB, SuggestC, SuggestI}

MaxBatch == 2
Batches == UNION {[1..n -> RawSuggestions] : n \in 0..MaxBatch}

Responses ==
    {Rejected, HttpStatus(500), HttpStatus(504), BodyNotJson, NoSuggestionField,
     SuggestionNotJson, ParsedNull}
        \cup {ParsedArray(items) : items \in Batches}

\* enableAutoAnalysis and maxSuggestionsPerFile as the user's settings may hold
\* them; the declared range of the latter (1..20) is not enforced on read.
MaxSuggestionsSettings == {-1, 1, 10}

MaxCalls == 2
MaxEvents == 2
MaxTimers == 2
MaxPendingEdits == 1

(***************************************************************************)
(* The controller (SuggestionProvider), its commands and its environment   *)
(***************************************************************************)
VARIABLES
    phase,                  \* "constructed", "active" (activate ran), "disposed"
    text,                   \* the open documents' contents
    activeEditor,           \* the document of window.activeTextEditor
    autoAnalysisEnabled,
    maxSuggestionsPerFile,
    suggestions,            \* the Store: uri -> located suggestions
    diagnostics,            \* diagnosticCollection: uri -> diagnostics
    lastAnalyzedContent,    \* the snapshot per uri
    isAnalyzing,            \* the busy flag
    calls,                  \* analyzeTerraformCode invocations awaiting a response
    analysisTimeout,        \* the document of the armed debounce timeout
    periodicTimer,          \* whether the field holds an interval handle
    changeListeners,        \* whether the listener fields hold undisposed handles
    liveTimers,             \* intervals set and not cleared
    liveListeners,          \* listener pairs registered and not disposed
    pendingEdits,           \* editor.edit calls awaiting their result, each with
                            \* the locals of the accept handler that made it
    out,                    \* what the last step showed and logged
    callsLeft,              \* the advisory calls the run may still start
    eventsLeft              \* the user's actions the run may still see

vars ==
    <<phase, text, activeEditor, autoAnalysisEnabled, maxSuggestionsPerFile,
      suggestions, diagnostics, lastAnalyzedContent, isAnalyzing, calls,
      analysisTimeout, periodicTimer, changeListeners, liveTimers, liveListeners,
      pendingEdits, out, callsLeft, eventsLeft>>

Undefined == <<>>
NoTimeout == "none"

Message(kind, body, detail) ==
    [kind |-> kind, text |-> body, detail |-> detail, found |-> 0, shown |-> 0]
NoMessage == Message("none", "", "")
Shown(message, log) == [message |-> message, log |-> log]
Silent == Shown(NoMessage, <<>>)

\* The state the constructor leaves, its settings read from settings, for a run
\* of at most maxEvents actions of the user and maxCalls advisory calls.
Constructed(settings, maxEvents, maxCalls) ==
    /\ phase = "constructed"
    /\ text \in [Docs -> {TextOne}]
    /\ activeEditor = "a.tf"
    /\ autoAnalysisEnabled \in BOOLEAN
    /\ maxSuggestionsPerFile \in settings
    /\ suggestions = [d \in Docs |-> <<>>]
    /\ diagnostics = [d \in Docs |-> <<>>]
    /\ lastAnalyzedContent = [d \in Docs |-> Undefined]
    /\ isAnalyzing = FALSE
    /\ calls = <<>>
    /\ analysisTimeout = NoTimeout
    /\ periodicTimer = FALSE
    /\ changeListeners = FALSE
    /\ liveTimers = 0
    /\ liveListeners = 0
    /\ pendingEdits = <<>>
    /\ out = Silent
    /\ callsLeft = maxCalls
    /\ eventsLeft = maxEvents

Init == Constructed(MaxSuggestionsSettings, MaxEvents, MaxCalls)

\* A variant that removes the first entry whatever the index: splice(0, 1).
RemoveFirst(s, i) == Tail(s)

\* Array.prototype.splice(i - 1, 1) on a copy.
RemoveAt(s, i) == SubSeq(s, 1, i - 1) \o SubSeq(s, i + 1, Len(s))

\* A variant of analyzeDocument that does not look at the busy flag.
analyzeDocumentWhileBusy(document, enabled) ==
    IF ~enabled \/ lastAnalyzedContent[document] = text[document]
    THEN UNCHANGED <<isAnalyzing, calls, callsLeft>>
    ELSE /\ callsLeft > 0
         /\ isAnalyzing' = TRUE
         /\ calls' = Append(calls, [document |-> document,
                                    currentContent |-> text[document],
                                    manual |-> FALSE,
                                    attempt |-> 0, waiting |-> FALSE])
         /\ callsLeft' = callsLeft - 1

\* A variant of analyzeDocument that does not compare with the snapshot.
analyzeDocumentUnchanged(document, enabled) ==
    IF ~enabled \/ isAnalyzing
    THEN UNCHANGED <<isAnalyzing, calls, callsLeft>>
    ELSE /\ callsLeft > 0
         /\ isAnalyzing' = TRUE
         /\ calls' = Append(calls, [document |-> document,
                                    currentContent |-> text[document],
                                    manual |-> FALSE,
                                    attempt |-> 0, waiting |-> FALSE])
         /\ callsLeft' = callsLeft - 1

\* analyzeDocument up to its await: the guards, the busy flag, the call.
\* enabled is the value of autoAnalysisEnabled when the method runs.
analyzeDocument(document, enabled) ==
    IF ~enabled \/ isAnalyzing \/ lastAnalyzedContent[document] = text[document]
    THEN UNCHANGED <<isAnalyzing, calls, callsLeft>>
    ELSE /\ callsLeft > 0
         /\ isAnalyzing' = TRUE
         /\ calls' = Append(calls, [document |-> document,
                                    currentContent |-> text[document],
                                    manual |-> FALSE,
                                    attempt |-> 0, waiting |-> FALSE])
         /\ callsLeft' = callsLeft - 1

\* A variant that leaves a pending timeout in place.
scheduleAnalysisUnlessPending(document, enabled) ==
    IF ~enabled \/ analysisTimeout # NoTimeout
    THEN UNCHANGED analysisTimeout
    ELSE analysisTimeout' = document

scheduleAnalysis(document, enabled) ==
    IF ~enabled
    THEN UNCHANGED analysisTimeout
    ELSE analysisTimeout' = document

startAutoAnalysis(enabled) ==
    IF ~enabled
    THEN UNCHANGED <<changeListeners, liveListeners, periodicTimer, liveTimers,
                     isAnalyzing, calls, callsLeft>>
    ELSE /\ liveTimers < MaxTimers
         /\ changeListeners' = TRUE
         /\ liveListeners' = liveListeners + 1
         /\ periodicTimer' = TRUE
         /\ liveTimers' = liveTimers + 1
         /\ analyzeDocument(activeEditor, enabled)

stopAutoAnalysis ==
    /\ analysisTimeout' = NoTimeout
    /\ periodicTimer' = FALSE
    /\ liveTimers' = IF periodicTimer THEN liveTimers - 1 ELSE liveTimers
    /\ changeListeners' = FALSE
    /\ liveListeners' = IF changeListeners THEN liveListeners - 1 ELSE liveListeners

\* processSuggestions on a document whose text is lines: what it leaves in the
\* Store and in the diagnostic collection for the document, and whether it threw.
processSuggestions(document, lines, isArray, items) ==
    IF ~isArray
    THEN [threw |-> TRUE, error |-> "suggestions is not iterable",
          stored |-> suggestions[document], published |-> diagnostics[document]]
    ELSE With(LimitedSuggestions(lines, items, maxSuggestionsPerFile),
              LAMBDA limitedSuggestions :
             IF phase = "disposed"
             THEN [threw |-> TRUE, error |-> "illegal state - object is disposed",
                   stored |-> limitedSuggestions, published |-> diagnostics[document]]
             ELSE [threw |-> FALSE, error |-> "",
                   stored |-> limitedSuggestions,
                   published |-> DiagnosticsOf(limitedSuggestions)])

SameSuggestion(s, suggestion) ==
    /\ s.original_code_snippet = suggestion.original_code_snippet
    /\ s.suggested_code_snippet = suggestion.suggested_code_snippet
    /\ s.line_number = suggestion.line_number
    /\ s.reasoning = suggestion.reasoning

\* A variant whose miss is the last entry, as splice(-1, 1) after a findIndex
\* that was not tested would remove.
FindIndexOrLast(stored, suggestion) ==
    IF \E i \in 1..Len(stored) : SameSuggestion(stored[i], suggestion)
    THEN CHOOSE i \in 1..Len(stored) :
             /\ SameSuggestion(stored[i], suggestion)
             /\ \A j \in 1..(i - 1) : ~SameSuggestion(stored[j], suggestion)
    ELSE Len(stored)

\* The 1-based index of the first stored entry equal to suggestion, or 0.
FindIndex(stored, suggestion) ==
    IF \E i \in 1..Len(stored) : SameSuggestion(stored[i], suggestion)
    THEN CHOOSE i \in 1..Len(stored) :
             /\ SameSuggestion(stored[i], suggestion)
             /\ \A j \in 1..(i - 1) : ~SameSuggestion(stored[j], suggestion)
    ELSE 0

removeSuggestion(document, lines, suggestion) ==
    With(FindIndex(suggestions[document], suggestion), LAMBDA index :
    IF index = 0
    THEN [removed |-> FALSE, threw |-> FALSE, error |-> "",
          stored |-> suggestions[document], published |-> diagnostics[document]]
    ELSE With(RemoveAt(suggestions[document], index), LAMBDA remaining :
    IF phase = "disposed"
    THEN [removed |-> TRUE, threw |-> TRUE,
          error |-> "illegal state - object is disposed",
          stored |-> remaining, published |-> diagnostics[document]]
    ELSE IF Len(remaining) > 0
    THEN With(processSuggestions(document, lines, TRUE,
                  [i \in 1..Len(remaining) |-> BasicSuggestion(remaining[i])]),
              LAMBDA refreshed :
             [removed |-> TRUE, threw |-> FALSE, error |-> "",
              stored |-> refreshed.stored, published |-> refreshed.published])
    ELSE [removed |-> TRUE, threw |-> FALSE, error |-> "",
          stored |-> <<>>, published |-> <<>>]))

(***************************************************************************)
(* Actions                                                                 *)
(***************************************************************************)
\* The user's actions are counted, to bound the runs explored.
UserEvent ==
    /\ eventsLeft > 0
    /\ eventsLeft' = eventsLeft - 1

\* activate(): the constructor has run; startAutoAnalysis.
Activate ==
    /\ phase = "constructed"
    /\ phase' = "active"
    /\ startAutoAnalysis(autoAnalysisEnabled)
    /\ out' = Silent
    /\ UNCHANGED <<text, activeEditor, autoAnalysisEnabled, maxSuggestionsPerFile,
                   suggestions, diagnostics, lastAnalyzedContent, analysisTimeout,
                   pendingEdits, eventsLeft>>

\* A pending editor.edit on the document is refused once the text has changed.
Outdated(edits, document) ==
    [i \in 1..Len(edits) |->
        IF edits[i].document = document
        THEN [edits[i] EXCEPT !.stale = TRUE]
        ELSE edits[i]]

\* The user types in a document: it changes and every live document-change
\* listener runs scheduleAnalysis.
EditText(document, lines) ==
    /\ phase # "constructed"
    /\ UserEvent
    /\ lines # text[document]
    /\ text' = [text EXCEPT ![document] = lines]
    /\ IF liveListeners > 0
       THEN scheduleAnalysis(document, autoAnalysisEnabled)
       ELSE UNCHANGED analysisTimeout
    /\ pendingEdits' = Outdated(pendingEdits, document)
    /\ out' = Silent
    /\ UNCHANGED <<phase, activeEditor, autoAnalysisEnabled, maxSuggestionsPerFile,
                   suggestions, diagnostics, lastAnalyzedContent, isAnalyzing, calls,
                   periodicTimer, changeListeners, liveTimers, liveListeners, callsLeft>>

\* The user switches to another Terraform editor.
SwitchEditor(document) ==
    /\ phase # "constructed"
    /\ UserEvent
    /\ document # activeEditor
    /\ activeEditor' = document
    /\ IF liveListeners > 0
       THEN scheduleAnalysis(document, autoAnalysisEnabled)
       ELSE UNCHANGED analysisTimeout
    /\ out' = Silent
    /\ UNCHANGED <<phase, text, autoAnalysisEnabled, maxSuggestionsPerFile,
                   suggestions, diagnostics, lastAnalyzedContent, isAnalyzing, calls,
                   periodicTimer, changeListeners, liveTimers, liveListeners,
                   pendingEdits, callsLeft>>

\* The debounce (or focus-switch) timeout fires.
DebounceFires ==
    /\ analysisTimeout # NoTimeout
    /\ analysisTimeout' = NoTimeout
    /\ analyzeDocument(analysisTimeout, autoAnalysisEnabled)
    /\ out' = Silent
    /\ UNCHANGED <<phase, text, activeEditor, autoAnalysisEnabled,
                   maxSuggestionsPerFile, suggestions, diagnostics,
                   lastAnalyzedContent, periodicTimer, changeListeners, liveTimers,
                   liveListeners, pendingEdits, eventsLeft>>

\* A live interval fires.
PeriodicTick ==
    /\ liveTimers > 0
    /\ analyzeDocument(activeEditor, autoAnalysisEnabled)
    /\ out' = Silent
    /\ UNCHANGED <<phase, text, activeEditor, autoAnalysisEnabled,
                   maxSuggestionsPerFile, suggestions, diagnostics,
                   lastAnalyzedContent, analysisTimeout, periodicTimer,
                   changeListeners, liveTimers, liveListeners, pendingEdits, eventsLeft>>

\* The checkCompliance command: manualAnalyzeDocument up to its await.
manualAnalyzeDocument ==
    /\ phase = "active"
    /\ UserEvent
    /\ IF isAnalyzing
       THEN /\ out' = Shown(Message("warning",
                                    "Analysis already in progress. Please wait...", ""),
                            <<>>)
            /\ UNCHANGED <<isAnalyzing, calls, callsLeft>>
       ELSE /\ callsLeft > 0
            /\ isAnalyzing' = TRUE
            /\ calls' = Append(calls, [document |-> activeEditor,
                                       currentContent |-> text[activeEditor],
                                       manual |-> TRUE,
                                       attempt |-> 0, waiting |-> FALSE])
            /\ callsLeft' = callsLeft - 1
            /\ out' = Silent
    /\ UNCHANGED <<phase, text, activeEditor, autoAnalysisEnabled,
                   maxSuggestionsPerFile, suggestions, diagnostics,
                   lastAnalyzedContent, analysisTimeout, periodicTimer,
                   changeListeners, liveTimers, liveListeners, pendingEdits>>

\* A variant that records the snapshot even when the call threw.
SnapshotEvenIfThrown(call, threw) ==
    [lastAnalyzedContent EXCEPT ![call.document] = call.currentContent]

\* A variant that records the text the document holds when the call settles.
SnapshotAtCompletion(call, threw) ==
    IF threw THEN lastAnalyzedContent
    ELSE [lastAnalyzedContent EXCEPT ![call.document] = text[call.document]]

\* A variant that records the snapshot for every document of the workspace.
SnapshotForEveryDocument(call, threw) ==
    IF threw THEN lastAnalyzedContent
    ELSE [d \in Docs |-> call.currentContent]

\* A variant that clears the busy flag only when nothing threw.
BusyUnlessThrown(threw) == threw

\* The snapshots after the advisory call of call settled: the text captured
\* before the call, recorded unless the call threw.
SnapshotAfterCall(call, threw) ==
    IF threw THEN lastAnalyzedContent
    ELSE [lastAnalyzedContent EXCEPT ![call.document] = call.currentContent]

\* The busy flag after the finally block, whether or not the try block threw.
BusyAfterAnalysis(threw) == FALSE

FoundMessage(count) ==
    IF count > 0
    THEN [kind |-> "information", text |-> "Found compliance issues. Showing top",
          detail |-> "", found |-> count,
          shown |-> Min(count, maxSuggestionsPerFile)]
    ELSE Message("information", "No compliance issues found!", "")

\* The advisory call of calls[i] settles with result: the rest of
\* analyzeDocument or manualAnalyzeDocument (snapshot, pipeline, catch, finally).
AnalysisCompletesWith(i, result) ==
    /\ i \in 1..Len(calls)
    /\ LET call == calls[i]
           document == call.document
           failedLog == IF call.manual THEN "Manual analysis failed:"
                                       ELSE "Analysis failed:"
           failed(error) ==
               Shown(IF call.manual
                     THEN Message("error", "Failed to analyze Terraform code: ", error)
                     ELSE NoMessage,
                     result.log \o <<failedLog>>)
       IN  \E processed \in {processSuggestions(document, text[document],
                                                result.isArray, result.items)} :
           /\ calls' = RemoveAt(calls, i)
           /\ isAnalyzing' = BusyAfterAnalysis(result.threw \/ processed.threw)
           /\ lastAnalyzedContent' = SnapshotAfterCall(call, result.threw)
           /\ IF result.threw
              THEN /\ out' = failed(result.error)
                   /\ UNCHANGED <<suggestions, diagnostics>>
              ELSE /\ suggestions' = [suggestions EXCEPT ![document] = processed.stored]
                   /\ diagnostics' = [diagnostics EXCEPT ![document] = processed.published]
                   /\ out' = IF processed.threw
                             THEN failed(processed.error)
                             ELSE Shown(IF call.manual
                                        THEN FoundMessage(Len(result.items))
                                        ELSE NoMessage,
                                        result.log)
    /\ UNCHANGED <<phase, text, activeEditor, autoAnalysisEnabled,
                   maxSuggestionsPerFile, analysisTimeout, periodicTimer,
                   changeListeners, liveTimers, liveListeners, pendingEdits,
                   callsLeft, eventsLeft>>

\* The advisory call of calls[i], made by the service without retries, settles
\* on response.
AnalysisCompletes(i, response) ==
    AnalysisCompletesWith(i, analyzeTerraformCode(response))

\* A variant that never refuses an entry.
LocatesAnything(entry) == FALSE

\* applySuggestion's test of the entry's location: not found, and an original
\* snippet to replace.
CannotLocate(entry) ==
    ~entry.location.found /\ ~IsBlank(entry.original_code_snippet)

\* The acceptSuggestion command with argument suggestion: the handler's lookup
\* and applySuggestion up to its await of editor.edit.
AcceptCommand(suggestion) ==
    /\ phase = "active"
    /\ UserEvent
    /\ LET stored == suggestions[activeEditor]
           index == FindIndex(stored, suggestion)
           suggestionWithLocation == stored[index]
       IN  IF index = 0
           THEN /\ out' = Shown(Message("error",
                                        "Could not find the suggestion to apply", ""),
                                <<>>)
                /\ UNCHANGED pendingEdits
           ELSE IF CannotLocate(suggestionWithLocation)
           THEN /\ out' = Shown(Message("error",
                                        "Could not locate the original code in the document. The file may have been modified.",
                                        ""),
                                <<>>)
                /\ UNCHANGED pendingEdits
           ELSE /\ Len(pendingEdits) < MaxPendingEdits
                /\ pendingEdits' =
                       Append(pendingEdits,
                              [document |-> activeEditor,
                               suggestions |-> stored,
                               suggestion |-> suggestionWithLocation,
                               edit |-> SuggestionEdit(text[activeEditor],
                                                       suggestionWithLocation),
                               stale |-> FALSE])
                /\ out' = Silent
    /\ UNCHANGED <<phase, text, activeEditor, autoAnalysisEnabled,
                   maxSuggestionsPerFile, suggestions, diagnostics,
                   lastAnalyzedContent, isAnalyzing, calls, analysisTimeout,
                   periodicTimer, changeListeners, liveTimers, liveListeners,
                   callsLeft>>

\* editor.edit of pendingEdits[i] settles: the edit is made unless the document
\* changed meanwhile (the change listeners then run); then the rest of
\* applySuggestion: removeSuggestion and the message, or the handler's catch.
EditSettles(i) ==
    /\ i \in 1..Len(pendingEdits)
    /\ LET pending == pendingEdits[i]
           document == pending.document
       IN  \E lines \in {IF pending.stale THEN text[document]
                          ELSE ApplyEdit(text[document], pending.edit)} :
           \E changed \in {lines # text[document]} :
           \E removal \in {removeSuggestion(document, lines, pending.suggestion)} :
           /\ text' = [text EXCEPT ![document] = lines]
           /\ pendingEdits' = IF changed
                              THEN Outdated(RemoveAt(pendingEdits, i), document)
                              ELSE RemoveAt(pendingEdits, i)
           /\ IF changed /\ liveListeners > 0
              THEN scheduleAnalysis(document, autoAnalysisEnabled)
              ELSE UNCHANGED analysisTimeout
           /\ suggestions' = [suggestions EXCEPT ![document] = removal.stored]
           /\ diagnostics' = [diagnostics EXCEPT ![document] = removal.published]
           /\ out' = IF removal.threw
                     THEN Shown(Message("error", "Error applying suggestion: ",
                                        removal.error),
                                <<"Accept suggestion error:">>)
                     ELSE Shown(Message("information",
                                        "Suggestion applied successfully", ""),
                                <<>>)
    /\ UNCHANGED <<phase, activeEditor, autoAnalysisEnabled, maxSuggestionsPerFile,
                   lastAnalyzedContent, isAnalyzing, calls, periodicTimer,
                   changeListeners, liveTimers, liveListeners, callsLeft, eventsLeft>>

\* The declineSuggestion command with argument suggestion.
DeclineCommand(suggestion) ==
    /\ phase = "active"
    /\ UserEvent
    /\ \E removal \in {removeSuggestion(activeEditor, text[activeEditor], suggestion)} :
           /\ suggestions' = [suggestions EXCEPT ![activeEditor] = removal.stored]
           /\ diagnostics' = [diagnostics EXCEPT ![activeEditor] = removal.published]
           /\ out' = IF removal.removed
                     THEN Shown(Message("information",
                                        "Suggestion dismissed successfully", ""),
                                <<>>)
                     ELSE Shown(Message("warning",
                                        "Could not find suggestion to dismiss. It may have already been removed.",
                                        ""),
                                <<>>)
    /\ UNCHANGED <<phase, text, activeEditor, autoAnalysisEnabled,
                   maxSuggestionsPerFile, lastAnalyzedContent, isAnalyzing, calls,
                   analysisTimeout, periodicTimer, changeListeners, liveTimers,
                   liveListeners, pendingEdits, callsLeft>>

\* The arguments a hover link can carry: a stored suggestion of the active
\* document, or one of an earlier rendering.
CommandArguments ==
    {BasicSuggestion(suggestions[activeEditor][i]) :
        i \in 1..Len(suggestions[activeEditor])} \cup RawSuggestions

\* The toggleAutoAnalysis command; the preference it saves is the value the
\* field already holds.
toggleAutoAnalysis ==
    /\ phase = "active"
    /\ UserEvent
    /\ autoAnalysisEnabled' = ~autoAnalysisEnabled
    /\ IF ~autoAnalysisEnabled
       THEN /\ startAutoAnalysis(TRUE)
            /\ UNCHANGED analysisTimeout
            /\ out' = Shown(Message("information",
                                    "Terraform auto-analysis enabled", ""), <<>>)
       ELSE /\ stopAutoAnalysis
            /\ UNCHANGED <<isAnalyzing, calls, callsLeft>>
            /\ out' = Shown(Message("information",
                                    "Terraform auto-analysis disabled", ""), <<>>)
    /\ UNCHANGED <<phase, text, activeEditor, maxSuggestionsPerFile, suggestions,
                   diagnostics, lastAnalyzedContent, pendingEdits>>

\* The user changes a terraformCompliance setting: loadSettings re-reads them.
loadSettings(enableAutoAnalysis, maxSuggestions) ==
    /\ phase = "active"
    /\ UserEvent
    /\ <<enableAutoAnalysis, maxSuggestions>> #
           <<autoAnalysisEnabled, maxSuggestionsPerFile>>
    /\ autoAnalysisEnabled' = enableAutoAnalysis
    /\ maxSuggestionsPerFile' = maxSuggestions
    /\ out' = Silent
    /\ UNCHANGED <<phase, text, activeEditor, suggestions, diagnostics,
                   lastAnalyzedContent, isAnalyzing, calls, analysisTimeout,
                   periodicTimer, changeListeners, liveTimers, liveListeners,
                   pendingEdits, callsLeft>>

\* Deactivation disposes the subscriptions, the controller among them.
dispose ==
    /\ phase = "active"
    /\ UserEvent
    /\ phase' = "disposed"
    /\ stopAutoAnalysis
    /\ diagnostics' = [d \in Docs |-> <<>>]
    /\ out' = Silent
    /\ UNCHANGED <<text, activeEditor, autoAnalysisEnabled, maxSuggestionsPerFile,
                   suggestions, lastAnalyzedContent, isAnalyzing, calls,
                   pendingEdits, callsLeft>>

\* One step, the advisory responses drawn from responses and the settings a
\* reload reads from settings.
Step(responses, settings) ==
    \/ Activate
    \/ \E lines \in UserTexts : EditText(activeEditor, lines)
    \/ \E document \in Docs : SwitchEditor(document)
    \/ DebounceFires
    \/ PeriodicTick
    \/ manualAnalyzeDocument
    \/ \E i \in 1..Len(calls), response \in responses : AnalysisCompletes(i, response)
    \/ \E suggestion \in CommandArguments : AcceptCommand(suggestion)
    \/ \E i \in 1..Len(pendingEdits) : EditSettles(i)
    \/ \E suggestion \in CommandArguments : DeclineCommand(suggestion)
    \/ toggleAutoAnalysis
    \/ \E enableAutoAnalysis \in BOOLEAN, maxSuggestions \in settings :
           loadSettings(enableAutoAnalysis, maxSuggestions)
    \/ dispose

Next == Step(Responses, MaxSuggestionsSettings)

Spec == Init /\ [][Next]_vars

(***************************************************************************)
(* The same controller in a smaller environment, with the scheduling the   *)
(* host guarantees: a pending advisory call settles, a live interval fires. *)
(***************************************************************************)
FairResponses ==
    {Rejected, HttpStatus(500), SuggestionNotJson, ParsedNull,
     ParsedArray(<<>>), ParsedArray(<<SuggestA>>)}
FairSettings == {10}

MaxFairEvents == 2
MaxFairCalls == 2

FairInit == Constructed(FairSettings, MaxFairEvents, MaxFairCalls)

FairNext == Step(FairResponses, FairSettings)

FairSpec ==
    /\ FairInit
    /\ [][FairNext]_vars
    /\ WF_vars(\E i \in 1..MaxFairCalls, response \in FairResponses :
                   AnalysisCompletes(i, response))
    /\ WF_vars(PeriodicTick)

(***************************************************************************)
(* The controller with the service that retries.                           *)
(***************************************************************************)
RetryResponses ==
    {Rejected, TimedOut, HttpStatus(504), HttpStatus(500), HttpStatus(404),
     SuggestionNotJson, ParsedArray(<<>>), ParsedArray(<<SuggestA>>)}

MaxRetryEvents == 2
MaxRetryCalls == 2

RetryInit == Constructed(FairSettings, MaxRetryEvents, MaxRetryCalls)

\* The fetch of the attempt under way for calls[i] settles with response:
\* analyzeWithRetry either starts its delay or settles the advisory call.
AttemptResponds(i, response) ==
    /\ i \in 1..Len(calls)
    /\ ~calls[i].waiting
    /\ IF RetriesAfter(response, calls[i].attempt)
       THEN /\ calls' = [calls EXCEPT ![i].waiting = TRUE]
            /\ out' = Shown(NoMessage, RetryLog(response))
            /\ UNCHANGED <<phase, text, activeEditor, autoAnalysisEnabled,
                           maxSuggestionsPerFile, suggestions, diagnostics,
                           lastAnalyzedContent, isAnalyzing, analysisTimeout,
                           periodicTimer, changeListeners, liveTimers,
                           liveListeners, pendingEdits, callsLeft, eventsLeft>>
       ELSE AnalysisCompletesWith(i, analyzeWithRetry(response))

\* The delay of calls[i] is over: analyzeWithRetry(code, attempt + 1) fetches.
DelayElapses(i) ==
    /\ i \in 1..Len(calls)
    /\ calls[i].waiting
    /\ calls' = [calls EXCEPT ![i].waiting = FALSE, ![i].attempt = @ + 1]
    /\ out' = Silent
    /\ UNCHANGED <<phase, text, activeEditor, autoAnalysisEnabled,
                   maxSuggestionsPerFile, suggestions, diagnostics,
                   lastAnalyzedContent, isAnalyzing, analysisTimeout,
                   periodicTimer, changeListeners, liveTimers, liveListeners,
                   pendingEdits, callsLeft, eventsLeft>>

RetryNext ==
    \/ Activate
    \/ \E lines \in UserTexts : EditText(activeEditor, lines)
    \/ DebounceFires
    \/ PeriodicTick
    \/ manualAnalyzeDocument
    \/ \E i \in 1..Len(calls), response \in RetryResponses : AttemptResponds(i, response)
    \/ \E i \in 1..Len(calls) : DelayElapses(i)

RetrySpec == RetryInit /\ [][RetryNext]_vars

(***************************************************************************)
(* processSuggestions statement by statement, on documents with resource   *)
(* blocks and batches with insertions: the list the localization returns   *)
(* (validSuggestions), then the list the Prioritizer returns.              *)
(***************************************************************************)
ResourceOpen == KwResourceSp \o <<"{">>
\* A resource block closed on the last line of the document.
TextClosedBlock == <<ResourceOpen, <<"}">> >>
\* That document, one whose block is never closed, one that ends with a
\* resource line without a block, and one without resources.
\* Two blocks of three lines that differ in their second line, and a region
\* of three lines whose second is blank.
TextTwins == << <<"r">>, <<"n", "1">>, <<"e">>, <<"r">>, <<"n">>, <<"e">> >>
TextGap == << <<"x">>, <<" ", "g">>, <<>>, <<"h">> >>
\* A resource block whose body repeats a word.
ResourceTN ==
    KwResourceSp \o <<Quote, "t", Quote, " ", Quote, "n", Quote, " ", "{">>
TextRepeats == <<ResourceTN, <<"a", " ", "a", " ", "a">>, <<"}">> >>
PipelineTexts ==
    {TextOne, TextClosedBlock, <<ResourceOpen, <<"x">> >>,
     << <<"x">>, KwResourceSp \o <<"x">> >>, TextTwins, TextGap, TextRepeats}

\* Replacements of line "b" (security) and of line "c" (security and
\* performance).
SuggestE ==
    [original_code_snippet |-> << <<"b">> >>,
     suggested_code_snippet |-> << <<"E">> >>,
     line_number |-> 3, reasoning |-> <<"t", "l", "s">>]
SuggestD ==
    [original_code_snippet |-> << <<"c">> >>,
     suggested_code_snippet |-> << <<"D">> >>,
     line_number |-> 4, reasoning |-> <<"s", "s", "l", " ", "c", "o", "s", "t">>]

\* Replacements of the later block of TextTwins and of the region of TextGap.
SuggestTwin ==
    [original_code_snippet |-> << <<"r">>, <<"n">>, <<"e">> >>,
     suggested_code_snippet |-> << <<"T">> >>,
     line_number |-> 4, reasoning |-> <<"t">>]
SuggestGap ==
    [original_code_snippet |-> << <<"g">>, <<>>, <<"h">> >>,
     suggested_code_snippet |-> << <<"G">> >>,
     line_number |-> 2, reasoning |-> <<"g">>]

\* A replacement of the resource block of TextRepeats, with another body.
SuggestBlock ==
    [original_code_snippet |-> <<ResourceTN, <<"a", " ", "b">>, <<"}">> >>,
     suggested_code_snippet |-> << <<"R">> >>,
     line_number |-> 1, reasoning |-> <<"r">>]

\* The replacements, and insertions: the original snippet empty or blank, the
\* suggested snippet a resource or not, the line hint below, inside or beyond
\* the documents.
PipelineSuggestions ==
    {SuggestA, SuggestB, SuggestC, SuggestD, SuggestE, SuggestTwin, SuggestGap,
     SuggestBlock}
        \cup {[original_code_snippet |-> original,
               suggested_code_snippet |-> suggested,
               line_number |-> hint, reasoning |-> <<"i">>] :
                  original \in {<< <<>> >>, << <<" ">> >>},
                  suggested \in {<< <<"n">> >>, <<ResourceOpen, <<"}">> >>},
                  hint \in {-1, 0, 1, 3, 9}}

MaxPipelineBatch == 2
PipelineBatches == UNION {[1..n -> PipelineSuggestions] : n \in 0..MaxPipelineBatch}

\* The settings the batch is processed under.
PipelineSettings == {-1, 1, 5}

\* A document is open and a batch is about to be processed. The locals of
\* processSuggestions are kept with its call.
PipelineInit ==
    /\ phase = "suggestions"
    /\ \E lines \in PipelineTexts : text = [d \in Docs |-> lines]
    /\ activeEditor = "a.tf"
    /\ autoAnalysisEnabled = TRUE
    /\ maxSuggestionsPerFile \in PipelineSettings
    /\ suggestions = [d \in Docs |-> <<>>]
    /\ diagnostics = [d \in Docs |-> <<>>]
    /\ lastAnalyzedContent = [d \in Docs |-> Undefined]
    /\ isAnalyzing = FALSE
    /\ calls = <<>>
    /\ analysisTimeout = NoTimeout
    /\ periodicTimer = FALSE
    /\ changeListeners = FALSE
    /\ liveTimers = 0
    /\ liveListeners = 0
    /\ pendingEdits = <<>>
    /\ out = Silent
    /\ callsLeft = 0
    /\ eventsLeft = 0

PipelineUnchanged ==
    UNCHANGED <<text, activeEditor, autoAnalysisEnabled, maxSuggestionsPerFile,
                lastAnalyzedContent, isAnalyzing, analysisTimeout, periodicTimer,
                changeListeners, liveTimers, liveListeners, pendingEdits, out,
                callsLeft, eventsLeft>>

\* const validSuggestions = this.processAndValidateSuggestions(document, suggestions)
LocateBatch(batch) ==
    /\ phase = "suggestions"
    /\ phase' = "validSuggestions"
    /\ calls' = <<[suggestions |-> batch,
                   validSuggestions |->
                       processAndValidateSuggestions(text[activeEditor], batch),
                   nonOverlappingSuggestions |-> <<>>]>>
    /\ UNCHANGED <<suggestions, diagnostics>>
    /\ PipelineUnchanged

\* const prioritizedSuggestions = this.prioritizeSuggestions(validSuggestions):
\* sort orders the array in place and returns it.
PrioritizeBatch ==
    /\ phase = "validSuggestions"
    /\ phase' = "prioritizedSuggestions"
    /\ calls' = [calls EXCEPT ![1].validSuggestions = prioritizeSuggestions(@)]
    /\ UNCHANGED <<suggestions, diagnostics>>
    /\ PipelineUnchanged

\* const nonOverlappingSuggestions =
\*     this.removeOverlappingSuggestions(prioritizedSuggestions):
\* its sort orders the same array again when it holds more than one entry.
PruneBatch ==
    /\ phase = "prioritizedSuggestions"
    /\ phase' = "nonOverlappingSuggestions"
    /\ calls' = [calls EXCEPT
           ![1].nonOverlappingSuggestions =
               removeOverlappingSuggestions(calls[1].validSuggestions),
           ![1].validSuggestions =
               IF Len(@) <= 1 THEN @ ELSE StableSort(@, StartLineCompare)]
    /\ UNCHANGED <<suggestions, diagnostics>>
    /\ PipelineUnchanged

\* limitedSuggestions, this.suggestions.set and diagnosticCollection.set
CapBatch ==
    /\ phase = "nonOverlappingSuggestions"
    /\ phase' = "limitedSuggestions"
    /\ \E limitedSuggestions \in {Slice0(calls[1].nonOverlappingSuggestions,
                                         maxSuggestionsPerFile)} :
           /\ suggestions' = [suggestions EXCEPT ![activeEditor] = limitedSuggestions]
           /\ diagnostics' = [diagnostics EXCEPT ![activeEditor] =
                                  DiagnosticsOf(limitedSuggestions)]
    /\ UNCHANGED calls
    /\ PipelineUnchanged

PipelineNext ==
    \/ \E batch \in PipelineBatches : LocateBatch(batch)
    \/ PrioritizeBatch
    \/ PruneBatch
    \/ CapBatch

PipelineSpec == PipelineInit /\ [][PipelineNext]_vars

(***************************************************************************)
(* Properties                                                              *)
(***************************************************************************)
\* A step starts an advisory call: the call it started.
StartsCall == Len(calls') > Len(calls)
StartedCall == calls'[Len(calls')]

\* A step in which the advisory call of calls[i] settles.
Settles(i) == i \in 1..Len(calls) /\ calls' = RemoveAt(calls, i)

\* A step in which the editor.edit of pendingEdits[i] settles.
EditSettled(i) ==
    i \in 1..Len(pendingEdits) /\ Len(pendingEdits') < Len(pendingEdits)

\* The fields that identify a suggestion across runs of the pipeline (its line
\* number is rewritten by each run).
SameAdvice(s, t) ==
    /\ s.original_code_snippet = t.original_code_snippet
    /\ s.suggested_code_snippet = t.suggested_code_snippet
    /\ s.reasoning = t.reasoning

\* C1: in every document's active set, each entry starts at least minSpacing
\* lines after the end of the entry before it.
C1_ConsecutiveEntriesSpaced ==
    \A d \in Docs :
        \A k \in 1..(Len(suggestions[d]) - 1) :
            suggestions[d][k + 1].location.startLine
                >= suggestions[d][k].location.endLine + minSpacing

\* A pipeline run stored two entries for a document.
C1_TwoEntriesStored == \E d \in Docs : Len(suggestions[d]) >= 2

\* C2 as stated: a step in which a pipeline run stores a new non-empty active
\* set for a document stores at most maxSuggestionsPerFile entries.  (The
\* only other step that leaves a changed non-empty set is the removal made
\* after disposal; it runs no pipeline.)
C2_StoredWithinCap ==
    [][\A d \in Docs :
          (/\ suggestions'[d] # suggestions[d]
           /\ suggestions'[d] # <<>>
           /\ ~(phase = "disposed" /\ pendingEdits' # pendingEdits))
              => Len(suggestions'[d]) <= maxSuggestionsPerFile]_vars

\* C3: at most one advisory call is in flight, the busy flag is set exactly
\* while one is, and a step taken while the flag is set starts no call: it
\* leaves the calls in flight as they are or settles the one in flight.
C3_OneAnalysisInFlight ==
    /\ [](Len(calls) <= 1 /\ (isAnalyzing <=> Len(calls) = 1))
    /\ [][isAnalyzing => (calls' = calls \/ calls' = <<>>)]_vars

\* The manual command arrived while an analysis was in flight.
C3_TriggerWhileBusy ==
    /\ isAnalyzing
    /\ Len(calls) = 1
    /\ out.message = Message("warning", "Analysis already in progress. Please wait...", "")

\* C4 as stated: a step starts an advisory call only if none is in flight and
\* the document's text differs from its snapshot.
C4_StartsOnlyOnChangedText ==
    [][StartsCall =>
          /\ ~isAnalyzing
          /\ text[StartedCall.document] # lastAnalyzedContent[StartedCall.document]]_vars

\* C4 amended: a step starts an advisory call only if none is in flight; the
\* call is made on the document's current text; and either the trigger is the
\* manual command, or auto-analysis is enabled and the text differs from the
\* document's snapshot.
C4_StartsOnlyWhenIdle ==
    [][StartsCall =>
          /\ ~isAnalyzing
          /\ Len(calls') = Len(calls) + 1
          /\ StartedCall.currentContent = text[StartedCall.document]
          /\ \/ StartedCall.manual
             \/ /\ autoAnalysisEnabled'
                /\ text[StartedCall.document]
                       # lastAnalyzedContent[StartedCall.document]]_vars

\* A manual analysis is in flight on text equal to the document's snapshot.
C4_ManualOnUnchangedText ==
    \E i \in 1..Len(calls) :
        /\ calls[i].manual
        /\ calls[i].currentContent = lastAnalyzedContent[calls[i].document]
        /\ calls[i].currentContent = text[calls[i].document]

\* C5: whenever the busy flag is set it is eventually cleared.
C5_BusyFlagEventuallyCleared == isAnalyzing ~> ~isAnalyzing

\* A manual analysis ended with the pipeline throwing, and the flag is clear.
C5_IdleAfterPipelineThrew ==
    /\ ~isAnalyzing
    /\ out.log = <<"Manual analysis failed:">>
    /\ out.message = Message("error", "Failed to analyze Terraform code: ",
                             "suggestions is not iterable")

\* The errors the advisory call throws.
ServiceErrors == {"fetch failed", "Unexpected token"}

\* C6: a step in which the advisory call settles by throwing leaves every
\* snapshot and every active set as they were; it shows nothing when the
\* call was automatic, and an error with the thrown message when manual.
C6_ThrownCallChangesNothing ==
    [][\A i \in 1..Len(calls) :
          (Settles(i) /\ "Error in LLMService:" \in SeqToSet(out'.log))
              => /\ lastAnalyzedContent' = lastAnalyzedContent
                 /\ suggestions' = suggestions
                 /\ IF calls[i].manual
                    THEN \E error \in ServiceErrors :
                             out'.message =
                                 Message("error", "Failed to analyze Terraform code: ",
                                         error)
                    ELSE out'.message = NoMessage]_vars

\* A manual call threw while the document had a snapshot and an active set.
C6_ManualCallThrew ==
    /\ "Error in LLMService:" \in SeqToSet(out.log)
    /\ out.message.kind = "error"
    /\ suggestions[activeEditor] # <<>>
    /\ lastAnalyzedContent[activeEditor] # Undefined

\* No action of the user is left and no edit or debounce of another document
\* is pending, auto-analysis is on with a live interval, the controller is
\* idle, and the active document's text is not its snapshot.
StaleSnapshot ==
    /\ ~isAnalyzing
    /\ autoAnalysisEnabled
    /\ liveTimers > 0
    /\ pendingEdits = <<>>
    /\ analysisTimeout \in {NoTimeout, activeEditor}
    /\ eventsLeft = 0
    /\ callsLeft > 0
    /\ text[activeEditor] # lastAnalyzedContent[activeEditor]

\* An analysis of the active document's current text is in flight.
FreshAnalysis ==
    \E i \in 1..Len(calls) :
        /\ calls[i].document = activeEditor
        /\ calls[i].currentContent = text[activeEditor]

\* C7: a call that settles without throwing records as the snapshot the text
\* captured before the call; and from an idle controller whose active document
\* differs from its snapshot, with auto-analysis on and no further action of
\* the user, an analysis of the current text is eventually started.
C7_StaleSnapshotReanalyzed ==
    /\ [][\A i \in 1..Len(calls) :
             (Settles(i) /\ lastAnalyzedContent' # lastAnalyzedContent)
                 => lastAnalyzedContent' =
                        [lastAnalyzedContent EXCEPT
                            ![calls[i].document] = calls[i].currentContent]]_vars
    /\ StaleSnapshot ~> FreshAnalysis

\* A call made on TextOne has just settled (with an HTTP error status) after
\* the user changed the text to TextTwo, and the controller is stale.
C7_EditedWhileInFlight ==
    /\ StaleSnapshot
    /\ out.log = <<"HTTP error:">>
    /\ lastAnalyzedContent[activeEditor] = TextOne
    /\ text[activeEditor] = TextTwo

\* C8 as stated: while an editor.edit of an accept is pending on a document,
\* no settling advisory call changes that document's active set; and when
\* the edit settles, the entry the accept looked up is in the active set the
\* removal searches.
C8_AcceptSeesNoReplacement ==
    [][\A i \in 1..Len(pendingEdits) :
          /\ (\E j \in 1..Len(calls) : Settles(j))
                 => suggestions'[pendingEdits[i].document]
                        = suggestions[pendingEdits[i].document]
          /\ EditSettled(i)
                 => \E k \in 1..Len(suggestions[pendingEdits[i].document]) :
                        suggestions[pendingEdits[i].document][k]
                            = pendingEdits[i].suggestion]_vars

\* C9 as stated: when the edit of an accept is applied, the active set left
\* holds no entry for the accepted suggestion, holds only suggestions of the
\* set the accept looked its target up in, and no advisory call is started.
C9_AcceptLeavesSubset ==
    [][\A i \in 1..Len(pendingEdits) :
          (EditSettled(i) /\ ~pendingEdits[i].stale)
              => /\ \A k \in 1..Len(suggestions'[pendingEdits[i].document]) :
                        /\ ~SameAdvice(suggestions'[pendingEdits[i].document][k],
                                       pendingEdits[i].suggestion)
                        /\ \E m \in 1..Len(pendingEdits[i].suggestions) :
                               SameAdvice(suggestions'[pendingEdits[i].document][k],
                                          pendingEdits[i].suggestions[m])
                 /\ calls' = calls]_vars

\* C10 as stated: an accept goes on to edit the text only if the suggestion is
\* an insertion or its original snippet can be located in the current text.
C10_AcceptRelocates ==
    [][Len(pendingEdits') > Len(pendingEdits) =>
          \E p \in {pendingEdits'[Len(pendingEdits')]} :
              \/ IsBlank(p.suggestion.original_code_snippet)
              \/ findCodeLocation(text[p.document], BasicSuggestion(p.suggestion)).found]_vars

LocateError ==
    Message("error",
            "Could not locate the original code in the document. The file may have been modified.",
            "")

Stored(suggestion) ==
    \E k \in 1..Len(suggestions[activeEditor]) :
        SameSuggestion(suggestions[activeEditor][k], suggestion)

StoredEntry(suggestion) ==
    suggestions[activeEditor][CHOOSE k \in 1..Len(suggestions[activeEditor]) :
        /\ SameSuggestion(suggestions[activeEditor][k], suggestion)
        /\ \A j \in 1..(k - 1) : ~SameSuggestion(suggestions[activeEditor][j], suggestion)]

\* C11 (error handling): accepting a stored suggestion whose location has
\* found = FALSE and whose original snippet is not empty shows the locate
\* error, starts no edit and changes neither the text nor the Store; accepting
\* a stored suggestion whose original snippet is empty does not show the
\* locate error.
C11_UnlocatedAcceptRefused ==
    [][\A s \in CommandArguments :
        (AcceptCommand(s) /\ Stored(s)) =>
            \E entry \in {StoredEntry(s)} :
                /\ (~entry.location.found /\ ~IsBlank(entry.original_code_snippet)) =>
                       /\ out'.message = LocateError
                       /\ pendingEdits' = pendingEdits
                       /\ text' = text
                       /\ suggestions' = suggestions
                /\ IsBlank(entry.original_code_snippet) =>
                       out'.message # LocateError]_vars

\* C11 witness: the locate error is on screen for a stored entry that was not
\* found, and no edit is pending.
C11_LocateErrorShown ==
    /\ out.message = LocateError
    /\ pendingEdits = <<>>
    /\ \E k \in 1..Len(suggestions[activeEditor]) :
           ~suggestions[activeEditor][k].location.found

\* C12 (frame effect): declining a suggestion stored for the active document
\* leaves a set without it, made only of suggestions the set held before and
\* shorter than before, and changes neither a text, nor the calls in flight,
\* nor a snapshot, nor another document's set; no edit is started.
C12_DeclineRemovesDeclined ==
    [][\A s \in CommandArguments :
        (DeclineCommand(s) /\ Stored(s)) =>
            /\ \A k \in 1..Len(suggestions'[activeEditor]) :
                   /\ ~SameAdvice(suggestions'[activeEditor][k], s)
                   /\ \E m \in 1..Len(suggestions[activeEditor]) :
                          SameAdvice(suggestions'[activeEditor][k],
                                     suggestions[activeEditor][m])
            /\ Len(suggestions'[activeEditor]) < Len(suggestions[activeEditor])
            /\ \A d \in Docs \ {activeEditor} : suggestions'[d] = suggestions[d]
            /\ text' = text
            /\ calls' = calls
            /\ callsLeft' = callsLeft
            /\ lastAnalyzedContent' = lastAnalyzedContent
            /\ pendingEdits' = pendingEdits]_vars

\* C12 witness: a decline succeeded and left a suggestion in the set.
C12_DeclinedOneOfTwo ==
    /\ out.message = Message("information", "Suggestion dismissed successfully", "")
    /\ suggestions[activeEditor] # <<>>

\* C13 as stated: accept or decline of a suggestion that is not in the active
\* document's set shows a warning and changes neither text, Store nor snapshot.
C13_MissReportedAsWarning ==
    [][\A s \in CommandArguments :
        ((AcceptCommand(s) \/ DeclineCommand(s)) /\ ~Stored(s)) =>
            /\ out'.message.kind = "warning"
            /\ text' = text
            /\ suggestions' = suggestions
            /\ lastAnalyzedContent' = lastAnalyzedContent]_vars

\* C13 (error handling), amended: accept or decline of a suggestion that is
\* not in the active document's set changes neither text, Store, diagnostics
\* nor snapshot and starts no edit; decline reports it as a warning, accept as
\* an error.
C13_MissIsNoOp ==
    [][\A s \in CommandArguments :
        /\ (DeclineCommand(s) /\ ~Stored(s)) =>
               out'.message =
                   Message("warning",
                           "Could not find suggestion to dismiss. It may have already been removed.",
                           "")
        /\ (AcceptCommand(s) /\ ~Stored(s)) =>
               out'.message =
                   Message("error", "Could not find the suggestion to apply", "")
        /\ ((AcceptCommand(s) \/ DeclineCommand(s)) /\ ~Stored(s)) =>
               /\ text' = text
               /\ suggestions' = suggestions
               /\ diagnostics' = diagnostics
               /\ lastAnalyzedContent' = lastAnalyzedContent
               /\ pendingEdits' = pendingEdits]_vars

\* C13 witness: an accept missed while the active document's set held another
\* suggestion.
C13_AcceptMissed ==
    /\ out.message = Message("error", "Could not find the suggestion to apply", "")
    /\ suggestions[activeEditor] # <<>>

\* The responses whose body, or whose suggestion field, JSON.parse rejects.
ParseFailures == {BodyNotJson, SuggestionNotJson}

C18_ResponseAfterDisposeIsNoOp ==
    [][\A i \in 1..Len(calls), response \in Responses :
          (phase = "disposed" /\ AnalysisCompletes(i, response))
              => /\ suggestions' = suggestions
                 /\ lastAnalyzedContent' = lastAnalyzedContent
                 /\ diagnostics' = diagnostics
                 /\ out'.message.kind # "error"
                 /\ "Analysis failed:" \notin SeqToSet(out'.log)
                 /\ "Manual analysis failed:" \notin SeqToSet(out'.log)]_vars

\* A response was processed after dispose: the Store holds its suggestions,
\* and publishing them threw.
C18_StoredAfterDispose ==
    /\ phase = "disposed"
    /\ out.log = <<"Analysis failed:">>
    /\ \E d \in Docs : suggestions[d] # <<>> /\ lastAnalyzedContent[d] = text[d]

\* The list the localization returned, once it has.
Located == IF phase = "suggestions" THEN <<>> ELSE calls[1].validSuggestions

\* C19: every suggestion whose original snippet is empty after trimming is
\* located with found = true on a single line between 0 and the document's
\* line count, whatever the document and the line hint.
C19_InsertionAlwaysLocated ==
    \A i \in 1..Len(Located) :
        Trim(Join(Located[i].original_code_snippet)) = <<>>
            => /\ Located[i].location.found
               /\ Located[i].location.startLine = Located[i].location.endLine
               /\ 0 <= Located[i].location.startLine
               /\ Located[i].location.startLine <= Len(text[activeEditor])

\* An insertion was located on the line after the last line of the document,
\* behind the resource block that closes there, and another on line 0 from a
\* hint below the document.
C19_InsertedAtBothEnds ==
    /\ phase = "validSuggestions"
    /\ text[activeEditor] = TextClosedBlock
    /\ Len(Located) = 2
    /\ Located[1].original_code_snippet = << <<" ">> >>
    /\ Located[1].location.startLine = Len(text[activeEditor])
    /\ Located[2].location.startLine = 0

\* The list the Prioritizer returned, once it has.
Prioritized ==
    IF phase = "prioritizedSuggestions" THEN calls[1].validSuggestions ELSE <<>>

\* The category bucket of a reasoning: security, else performance, else general.
Bucket(reasoning) ==
    IF isSecurityRelated(reasoning) THEN "security"
    ELSE IF isPerformanceRelated(reasoning) THEN "performance"
    ELSE "general"

TimeoutResponses == {HttpStatus(504), TimedOut}

C15_ExhaustedManualShowsError ==
    [][\A i \in 1..Len(calls) :
          (AttemptResponds(i, HttpStatus(504)) /\ calls[i].attempt = maxRetries)
              => IF calls[i].manual
                 THEN out'.message.kind = "error"
                 ELSE /\ out'.message = NoMessage
                      /\ suggestions'[calls[i].document] = <<>>]_vars

\* A manual analysis ended after the 504 of its 4th attempt.
C15_ManualExhausted ==
    /\ out.log = <<"504 Gateway Timeout", "HTTP error:">>
    /\ out.message = Message("information", "No compliance issues found!", "")
    /\ calls = <<>>
    /\ ~isAnalyzing

\* C16: an attempt that gets a non-success status other than 504 settles the
\* call at once, with the empty list and without an error: no delay starts,
\* the document's set is empty and its snapshot recorded, nothing is logged as
\* failed and no error is shown; when it is the first attempt it was the only.
C16_OtherStatusNotRetried ==
    [][\A i \in 1..Len(calls), status \in {404, 500} :
          AttemptResponds(i, HttpStatus(status))
              => /\ Settles(i)
                 /\ suggestions'[calls[i].document] = <<>>
                 /\ lastAnalyzedContent'[calls[i].document] = calls[i].currentContent
                 /\ out'.log = <<StatusLine(HttpStatus(status)), "HTTP error:">>
                 /\ out'.message = IF calls[i].manual THEN FoundMessage(0)
                                   ELSE NoMessage]_vars

\* An analysis ended on an error status at its first attempt.
C16_SettledOnErrorStatus ==
    /\ out.log = <<"500 Internal Server Error", "HTTP error:">>
    /\ calls = <<>>
    /\ ~isAnalyzing
    /\ \E d \in Docs : lastAnalyzedContent[d] = text[d]

\* Entries a and b conflict: a.startLine <= b.startLine < a.endLine + minSpacing.
Conflict(a, b) ==
    /\ a.location.startLine <= b.location.startLine
    /\ b.location.startLine < a.location.endLine + minSpacing

\* C21 as stated: of two conflicting entries of the prioritized list, conflict
\* resolution keeps exactly one; when their start lines are equal it keeps the
\* one that came earlier in the prioritized list.
C21_ConflictKeepsExactlyOne ==
    [][PruneBatch =>
          \A i, j \in 1..Len(calls[1].validSuggestions) :
              \E a \in {calls[1].validSuggestions[i]},
                 b \in {calls[1].validSuggestions[j]},
                 kept \in {SeqToSet(calls'[1].nonOverlappingSuggestions)} :
                  (a # b /\ Conflict(a, b))
                      => /\ (a \in kept) # (b \in kept)
                         /\ (i < j /\ a.location.startLine = b.location.startLine)
                                => a \in kept]_vars

\* C21, the part that holds: of two conflicting entries at most one is kept, and
\* of two with equal start lines never the one that came later in the
\* prioritized list.
C21_ConflictKeepsAtMostOne ==
    [][PruneBatch =>
          \A i, j \in 1..Len(calls[1].validSuggestions) :
              \E a \in {calls[1].validSuggestions[i]},
                 b \in {calls[1].validSuggestions[j]},
                 kept \in {SeqToSet(calls'[1].nonOverlappingSuggestions)} :
                  (a # b /\ Conflict(a, b))
                      => /\ ~(a \in kept /\ b \in kept)
                         /\ (i < j /\ a.location.startLine = b.location.startLine)
                                => b \notin kept]_vars

\* Conflict resolution ran on two different entries of line 0 and kept neither.
C21_BothOnFirstLineDropped ==
    /\ phase = "nonOverlappingSuggestions"
    /\ Len(calls[1].validSuggestions) = 2
    /\ calls[1].validSuggestions[1] # calls[1].validSuggestions[2]
    /\ \A i \in 1..2 : calls[1].validSuggestions[i].location.startLine = 0
    /\ calls[1].nonOverlappingSuggestions = <<>>

\* The window of n lines that starts on line s (0-based) of lines, trimmed.
TrimmedWindow(lines, s, n) == [j \in 1..n |-> Trim(lines[s + j])]

\* The starts of the windows of lines that equal originalLines line for line.
EqualWindows(lines, originalLines) ==
    {s \in 0..(Len(lines) - Len(originalLines)) :
        TrimmedWindow(lines, s, Len(originalLines)) = originalLines}

\* C22 as stated: when the snippet's non-blank trimmed lines equal a block of
\* the document line for line, and an earlier block of as many lines differs
\* from them (as every window before the equal one does), the suggestion is
\* located with found = true on exactly the block that equals the snippet.
C22_LaterBlockLocated ==
    \A i \in 1..Len(Located) :
        \E originalLines \in {NonBlankTrimmed(Located[i].original_code_snippet)} :
            \A later \in EqualWindows(text[activeEditor], originalLines) :
                (/\ originalLines # <<>>
                 /\ later >= Len(originalLines)
                 /\ \A s \in 0..(later - 1) :
                        s \notin EqualWindows(text[activeEditor], originalLines))
                    => /\ Located[i].location.found
                       /\ Located[i].location.startLine = later
                       /\ Located[i].location.endLine = later + Len(originalLines) - 1

\* The snippet that equals the later block of TextTwins was located on the
\* earlier block.
C22_EarlierTwinLocated ==
    /\ text[activeEditor] = TextTwins
    /\ \E i \in 1..Len(Located) :
           /\ Located[i].original_code_snippet = SuggestTwin.original_code_snippet
           /\ Located[i].location.found
           /\ Located[i].location.startLine = 0
           /\ Located[i].location.endLine = 2

\* The starts of the regions of lines that equal snippet line for line, blank
\* lines included, up to the white space around each line.
EqualRegions(lines, snippet) ==
    {s \in 0..(Len(lines) - Len(snippet)) :
        TrimmedWindow(lines, s, Len(snippet)) =
            [j \in 1..Len(snippet) |-> Trim(snippet[j])]}

C23_GapRegionMissed ==
    /\ text[activeEditor] = TextGap
    /\ \E i \in 1..Len(Located) :
           /\ Located[i].original_code_snippet = SuggestGap.original_code_snippet
           /\ 1 \in EqualRegions(text[activeEditor], Located[i].original_code_snippet)
           /\ ~findExactMultiLineMatch(text[activeEditor],
                   Trim(Join(Located[i].original_code_snippet))).found

C24_AcceptedSnippetNoLongerMatched ==
    [][\A i \in 1..Len(pendingEdits) :
          (/\ EditSettles(i)
           /\ ~pendingEdits[i].stale
           /\ ~IsBlank(pendingEdits[i].suggestion.original_code_snippet))
          => ~findExactMultiLineMatch(
                 text'[pendingEdits[i].document],
                 Trim(Join(pendingEdits[i].suggestion.original_code_snippet))).found]_vars

\* The replacement of line "b" was made at the span stored for the earlier
\* text, on line "c": the original line "b" is still in the document.
C24_ReplacedStaleSpan ==
    /\ \E d \in Docs : text[d] = << <<"x">>, <<"b">>, <<"B">> >>
    /\ out.message.text = "Suggestion applied successfully"

\* C25 as stated: every stored set has at most maxSuggestionsPerFile entries,
\* in every state.
C25_StoredWithinConfiguredCap ==
    \A d \in Docs : Len(suggestions[d]) <= maxSuggestionsPerFile

\* A set of two entries is still stored although the setting was reloaded
\* as 1.
C25_TwoStoredUnderCapOne ==
    /\ maxSuggestionsPerFile = 1
    /\ \E d \in Docs : Len(suggestions[d]) = 2

\* C26 as stated: at most one periodic timer and one pair of listeners exist at
\* any time, and once the controller is disposed or auto-analysis is off, no
\* periodic timer, debounce timer or listener is left.
C26_TimersAndListenersReleased ==
    /\ liveTimers <= 1
    /\ liveListeners <= 1
    /\ (phase = "disposed" \/ ~autoAnalysisEnabled)
           => /\ liveTimers = 0
              /\ liveListeners = 0
              /\ analysisTimeout = NoTimeout

\* Auto-analysis was started while the timer and the listeners of an earlier
\* start were still registered: two of each are live.
C26_StartedTwice ==
    /\ liveTimers = 2
    /\ liveListeners = 2
    /\ out.message.text = "Terraform auto-analysis enabled"

\* The document's active set holds the advice of suggestion.
Holds(stored, suggestion) ==
    \E k \in 1..Len(stored) : SameAdvice(stored[k], suggestion)

\* A decline has just succeeded on the active document while the advisory call
\* of calls[i], for the same document, is in flight.
DeclinedWhileInFlight(i) ==
    /\ out.message = Message("information", "Suggestion dismissed successfully", "")
    /\ i \in 1..Len(calls)
    /\ calls[i].document = activeEditor

C28_FoundThenSecurityThenPerformance ==
    \A i, j \in 1..Len(Prioritized) :
        i < j =>
            LET a == Prioritized[i]
                b == Prioritized[j]
            IN  /\ ~(b.location.found /\ ~a.location.found)
                /\ (a.location.found = b.location.found)
                       => ~(isSecurityRelated(b.reasoning)
                                /\ ~isSecurityRelated(a.reasoning))
                /\ (/\ a.location.found = b.location.found
                    /\ ~isSecurityRelated(a.reasoning)
                    /\ ~isSecurityRelated(b.reasoning))
                       => ~(isPerformanceRelated(b.reasoning)
                                /\ ~isPerformanceRelated(a.reasoning))

\* C28 witness: the Prioritizer put a located suggestion of no category before
\* a security suggestion that was not found, against the order of the batch.
C28_FoundBeforeUnfoundSecurity ==
    /\ Len(Prioritized) = 2
    /\ Prioritized[1].location.found
    /\ ~isSecurityRelated(Prioritized[1].reasoning)
    /\ ~isPerformanceRelated(Prioritized[1].reasoning)
    /\ ~Prioritized[2].location.found
    /\ isSecurityRelated(Prioritized[2].reasoning)
    /\ calls[1].suggestions[1].reasoning = Prioritized[2].reasoning

\* The list the Conflict Resolver returned, once the cap was applied to it.
Pruned == IF phase = "limitedSuggestions" THEN calls[1].nonOverlappingSuggestions
          ELSE <<>>

StrictlyAscending(stored) ==
    \A i, j \in 1..Len(stored) :
        i < j => stored[i].location.startLine < stored[j].location.startLine

\* C29 as stated: the set the pipeline stored is in strictly ascending
\* startLine order and is made of the first maxSuggestionsPerFile entries of
\* the pruned list (all of them if there are fewer).
C29_StoredIsFirstEntriesOfPruned ==
    phase = "limitedSuggestions" =>
        /\ StrictlyAscending(suggestions[activeEditor])
        /\ suggestions[activeEditor] =
               SubSeq(Pruned, 1, Min(maxSuggestionsPerFile, Len(Pruned)))

\* What holds for every setting: the stored set is strictly ascending and is a
\* prefix of the pruned list, and the pruned list is strictly ascending
\* whenever the batch held more than one suggestion.
C29_StoredIsAscendingPrefix ==
    phase = "limitedSuggestions" =>
        /\ StrictlyAscending(suggestions[activeEditor])
        /\ Len(suggestions[activeEditor]) <= Len(Pruned)
        /\ suggestions[activeEditor] = SubSeq(Pruned, 1, Len(suggestions[activeEditor]))
        /\ maxSuggestionsPerFile >= 0 =>
               Len(suggestions[activeEditor]) = Min(maxSuggestionsPerFile, Len(Pruned))

\* With the setting at -1 the cap dropped the last of two pruned entries and
\* stored the first.
C29_NegativeCapStoredOne ==
    /\ phase = "limitedSuggestions"
    /\ maxSuggestionsPerFile = -1
    /\ Len(Pruned) = 2
    /\ Len(suggestions[activeEditor]) = 1

\* C30 (safety): the cap decides by line alone. Every stored entry is an entry
\* of the pruned list, and every pruned entry the cap removed starts after
\* every stored entry, whatever rank the Prioritizer gave it.
C30_CapRemovesLaterLines ==
    phase = "limitedSuggestions" =>
        /\ \A k \in 1..Len(suggestions[activeEditor]) :
               \E m \in 1..Len(Pruned) : Pruned[m] = suggestions[activeEditor][k]
        /\ \A m \in 1..Len(Pruned) :
               (\A k \in 1..Len(suggestions[activeEditor]) :
                    suggestions[activeEditor][k] # Pruned[m])
                   => \A k \in 1..Len(suggestions[activeEditor]) :
                          suggestions[activeEditor][k].location.startLine
                              < Pruned[m].location.startLine

\* C30 witness: with a cap of 1, of two located suggestions that do not
\* conflict the one on the earlier line is stored and the one on the later
\* line is removed, although the Prioritizer ranks the removed one first.
C30_HigherRankedRemovedByCap ==
    /\ phase = "limitedSuggestions"
    /\ maxSuggestionsPerFile = 1
    /\ Len(Pruned) = 2
    /\ suggestions[activeEditor] = <<Pruned[1]>>
    /\ Pruned[1].location.found
    /\ Pruned[2].location.found
    /\ ~Conflict(Pruned[1], Pruned[2])
    /\ PriorityCompare(Pruned[2], Pruned[1]) < 0

\* C31 (invariant): after every step, each stored entry that was found has
\* line_number = startLine + 1, and each stored entry that was not found, in a
\* set the step wrote, has the line_number it had in what the pipeline was run
\* on: the response of the analysis that completes, or the set stored before
\* (accept and decline refresh).
C31_LineNumberFollowsLocation ==
    [][\A d \in Docs : \A k \in 1..Len(suggestions'[d]) :
          /\ suggestions'[d][k].location.found
                 => suggestions'[d][k].line_number
                        = suggestions'[d][k].location.startLine + 1
          /\ (~suggestions'[d][k].location.found /\ suggestions'[d] # suggestions[d])
                 => \/ \E m \in 1..Len(suggestions[d]) :
                           SameSuggestion(suggestions[d][m], suggestions'[d][k])
                    \/ \E i \in 1..Len(calls), r \in Responses :
                           /\ calls[i].document = d
                           /\ AnalysisCompletes(i, r)
                           /\ \E m \in 1..Len(r.items) :
                                  SameSuggestion(r.items[m], suggestions'[d][k])]_vars

\* C31 witness: after a decline the refreshed set holds an entry that was not
\* found.
C31_RefreshedAfterEdit ==
    /\ out.message = Message("information", "Suggestion dismissed successfully", "")
    /\ \E k \in 1..Len(suggestions[activeEditor]) :
           ~suggestions[activeEditor][k].location.found

\* The window of lines at offset i holds k consecutive lines that each equal
\* the line of originalLines at their position.
HasFullMatchRun(lines, originalLines, i, k) ==
    \E s \in 0..(Len(originalLines) - k) :
        \A j \in (s + 1)..(s + k) : Trim(lines[i + j]) = originalLines[j]

\* C32 as stated: the exact match accepts the window at offset i exactly when
\* its score is at least 0.8 times its length and it holds a run of
\* min(2, length) consecutive full matches, and it returns the first window
\* accepted.
C32_AcceptsOnScoreAndRun ==
    \A m \in 1..Len(Located) :
        \E originalLines \in {NonBlankTrimmed(Located[m].original_code_snippet)} :
            originalLines # <<>> =>
                /\ \A i \in 0..(Len(text[activeEditor]) - Len(originalLines)) :
                       ExactWindowAccepts(text[activeEditor], originalLines, i)
                           <=> /\ 5 * ExactWindowScore(text[activeEditor],
                                                       originalLines, i).matchCount2
                                      >= 8 * Len(originalLines)
                               /\ HasFullMatchRun(text[activeEditor], originalLines, i,
                                                  Min(2, Len(originalLines)))
                /\ \E exactMatch \in {findExactMultiLineMatch(
                                          text[activeEditor],
                                          Trim(Join(Located[m].original_code_snippet)))} :
                       exactMatch.found
                           => \A i \in 0..(exactMatch.startLine - 1) :
                                  ~ExactWindowAccepts(text[activeEditor], originalLines, i)

\* A window of three lines was accepted whose two full matches are separated
\* by a line that only contains the snippet's line.
C32_AcceptedWithoutRun ==
    /\ text[activeEditor] = TextTwins
    /\ \E m \in 1..Len(Located) :
           /\ Located[m].original_code_snippet = SuggestTwin.original_code_snippet
           /\ Located[m].location.found
           /\ Located[m].location.startLine = 0
           /\ ~HasFullMatchRun(TextTwins, SuggestTwin.original_code_snippet, 0, 2)

\* The resource blocks of lines that findTerraformResourceMatch compares with
\* originalCode: their content, for each line that declares the resource of
\* originalCode and has a block end.
ComparedBlocks(lines, originalCode) ==
    LET resourceInfo == extractTerraformResourceInfo(originalCode)
    IN  {Trim(Join(SubSeq(lines, i + 1, findResourceBlockEnd(lines, i) + 1))) :
            i \in {k \in 0..(Len(lines) - 1) :
                      /\ resourceInfo.ok
                      /\ isResourceDeclaration(Trim(lines[k + 1]), resourceInfo)
                      /\ findResourceBlockEnd(lines, k) # -1}}

\* C33 as stated: for every block and snippet the structural match compares,
\* the content similarity is the Jaccard index of the two sets of words, is
\* the same with its arguments exchanged, and is at most 1.
C33_SimilarityIsJaccard ==
    \A m \in 1..Len(Located) :
        \E originalCode \in {Trim(Join(Located[m].original_code_snippet))} :
            \A blockContent \in ComparedBlocks(text[activeEditor], originalCode) :
                \E similarity \in {calculateContentSimilarity(blockContent, originalCode)},
                   exchanged \in {calculateContentSimilarity(originalCode, blockContent)},
                   words1 \in {SeqToSet(NormalizedWords(blockContent))},
                   words2 \in {SeqToSet(NormalizedWords(originalCode))} :
                    /\ similarity.num * Cardinality(words1 \cup words2)
                           = Cardinality(words1 \cap words2) * similarity.den
                    /\ similarity.num * exchanged.den = exchanged.num * similarity.den
                    /\ similarity.num >= 0
                    /\ similarity.num <= similarity.den

\* The block of TextRepeats was compared with the snippet of SuggestBlock and
\* located by the structural match with a similarity of 8/7.
C33_SimilarityAboveOne ==
    /\ text[activeEditor] = TextRepeats
    /\ \E m \in 1..Len(Located) :
           /\ Located[m].original_code_snippet = SuggestBlock.original_code_snippet
           /\ Located[m].location.found
           /\ ~findExactMultiLineMatch(TextRepeats,
                  Trim(Join(SuggestBlock.original_code_snippet))).found
           /\ findTerraformResourceMatch(TextRepeats,
                  Trim(Join(SuggestBlock.original_code_snippet))).found
           /\ calculateContentSimilarity(Trim(Join(TextRepeats)),
                  Trim(Join(SuggestBlock.original_code_snippet)))
                  = [num |-> 8, den |-> 7]

\* The quick fixes offered for the i-th diagnostic published for document d.
QuickFixes(d, i) ==
    provideCodeActions(suggestions[d], <<diagnostics[d][i]>>)

\* C34 as stated: for every diagnostic published for a stored suggestion, the
\* code-action provider offers an accept and a decline quick fix whose argument
\* is that stored suggestion.
C34_QuickFixesForEveryDiagnostic ==
    \A d \in Docs : \A i \in 1..Len(diagnostics[d]) :
        i <= Len(suggestions[d]) =>
            \E k, l \in 1..Len(QuickFixes(d, i)) :
                /\ QuickFixes(d, i)[k].command = "terraformCompliance.acceptSuggestion"
                /\ QuickFixes(d, i)[k].arguments = <<suggestions[d][i]>>
                /\ QuickFixes(d, i)[l].command = "terraformCompliance.declineSuggestion"
                /\ QuickFixes(d, i)[l].arguments = <<suggestions[d][i]>>

\* A diagnostic is published for a stored suggestion and the provider, asked
\* with all the diagnostics of the document, offers nothing.
C34_NoQuickFixOffered ==
    \E d \in Docs :
        /\ suggestions[d] # <<>>
        /\ diagnostics[d] = DiagnosticsOf(suggestions[d])
        /\ provideCodeActions(suggestions[d], diagnostics[d]) = <<>>

\* C35 (temporal): one timeout at most is pending.  A text change or a focus
\* switch that a live listener hears while auto-analysis is on leaves the
\* timeout pending for its document, whatever document it was pending for; and
\* the step in which the timeout fires clears it and starts at most one
\* analysis, of the document it was pending for.
C35_LastScheduledDocumentAnalyzed ==
    [][/\ \A d \in Docs :
              (/\ liveListeners > 0
               /\ autoAnalysisEnabled
               /\ \/ \E lines \in UserTexts : EditText(d, lines)
                  \/ SwitchEditor(d))
                  => analysisTimeout' = d
       /\ DebounceFires
              => /\ analysisTimeout' = NoTimeout
                 /\ Len(calls') <= Len(calls) + 1
                 /\ StartsCall => StartedCall.document = analysisTimeout]_vars

\* C35 witness: the text of a.tf differs from its snapshot and no analysis of
\* it is in flight, while the only pending timeout is the one of b.tf, set by
\* the focus switch.
C35_PendingAnalysisReplaced ==
    /\ analysisTimeout = "b.tf"
    /\ activeEditor = "b.tf"
    /\ text["a.tf"] = TextTwo
    /\ lastAnalyzedContent["a.tf"] = TextOne
    /\ calls = <<>>
    /\ eventsLeft = 0

\* The non-success statuses the advisory endpoint answers with.
ErrorStatuses == {HttpStatus(500), HttpStatus(504)}

\* C36 (error handling): when the advisory call of an analysis gets a
\* non-success status, the step that settles it stores the empty set for the
\* document, records the text the call was made on as the document's snapshot
\* and clears the busy flag; and an automatic trigger starts a call only for a
\* document whose text differs from its snapshot.
C36_ErrorStatusCountsAsAnalysis ==
    [][/\ \A i \in 1..Len(calls), response \in ErrorStatuses :
              AnalysisCompletes(i, response)
                  => /\ suggestions' =
                            [suggestions EXCEPT ![calls[i].document] = <<>>]
                     /\ lastAnalyzedContent' =
                            [lastAnalyzedContent EXCEPT
                                 ![calls[i].document] = calls[i].currentContent]
                     /\ ~isAnalyzing'
                     /\ "HTTP error:" \in SeqToSet(out'.log)
       /\ (StartsCall /\ ~StartedCall.manual)
              => text[StartedCall.document]
                     # lastAnalyzedContent[StartedCall.document]]_vars

\* C36 witness: the second analysis, an automatic one, has just settled on an
\* error status: the
\* active document's set is empty and its snapshot is its text, while the
\* interval is live and auto-analysis is on.
C36_SettledOnErrorStatus ==
    /\ out = Shown(NoMessage, <<"HTTP error:">>)
    /\ suggestions[activeEditor] = <<>>
    /\ lastAnalyzedContent[activeEditor] = text[activeEditor]
    /\ autoAnalysisEnabled
    /\ periodicTimer
    /\ phase = "active"
    /\ callsLeft < MaxCalls - 1

\* C37 as stated: conflict resolution of a non-empty list keeps the entry that
\* is first in line order, so that it returns a non-empty list.
C37_FirstInLineOrderKept ==
    [][(PruneBatch /\ calls[1].validSuggestions # <<>>)
          => /\ calls'[1].nonOverlappingSuggestions # <<>>
             /\ calls'[1].nonOverlappingSuggestions[1]
                    = StableSort(calls[1].validSuggestions, StartLineCompare)[1]]_vars

\* Conflict resolution ran on two entries that do not conflict, dropped the
\* one on line 0 and kept the other.
C37_FirstLineEntryDropped ==
    /\ phase = "nonOverlappingSuggestions"
    /\ Len(calls[1].validSuggestions) = 2
    /\ calls[1].validSuggestions[1].location.startLine = 0
    /\ ~Conflict(calls[1].validSuggestions[1], calls[1].validSuggestions[2])
    /\ calls[1].nonOverlappingSuggestions = <<calls[1].validSuggestions[2]>>

\* The active set and the snapshot of every document other than document are
\* the same after the step as before it.
OthersUntouched(document) ==
    \A other \in Docs \ {document} :
        /\ suggestions'[other] = suggestions[other]
        /\ lastAnalyzedContent'[other] = lastAnalyzedContent[other]

\* C38 (frame): the step that settles the analysis of a document, the step
\* that settles the edit of an accepted suggestion of a document, and the
\* accept and decline commands run on a document leave the active set and the
\* snapshot of every other document as they were.
C38_OtherDocumentsUntouched ==
    [][/\ \A i \in 1..Len(calls) :
              Settles(i) => OthersUntouched(calls[i].document)
       /\ \A i \in 1..Len(pendingEdits) :
              EditSettles(i) => OthersUntouched(pendingEdits[i].document)
       /\ \A suggestion \in CommandArguments :
              (AcceptCommand(suggestion) \/ DeclineCommand(suggestion))
                  => OthersUntouched(activeEditor)]_vars

\* C38 witness: a suggestion of b.tf has just been declined while a.tf, analysed
\* before, holds a stored set and a snapshot.
C38_DeclinedWhileOtherHoldsSet ==
    /\ out = Shown(Message("information", "Suggestion dismissed successfully", ""),
                   <<>>)
    /\ activeEditor = "b.tf"
    /\ lastAnalyzedContent["b.tf"] # Undefined
    /\ suggestions["a.tf"] # <<>>
    /\ lastAnalyzedContent["a.tf"] = text["a.tf"]

=============================================================================
